---- MODULE Spec2Model ----
(***************************************************************************)
(* A model of the HarkerBBALL statistics programs:                         *)
(*   - GameAnalyzer (analyze_game.py): possession estimate, efficiency,    *)
(*     turnover, rebounding and shot-selection analyses;                   *)
(*   - the shot zone engine (process_shots.py);                            *)
(*   - the two entry points (main.py, analyze_game_stats.py).              *)
(*                                                                         *)
(* Numbers.  Python floats are modelled in fixed point.  A float value is  *)
(* a record [k, v]: k = "num" with v the value in the unit stated at the   *)
(* place of use (hundredths for round(x, 2), thousandths for round(x, 3)), *)
(* k = "nan" for not-a-number, k = "inf" for a division of a non-zero      *)
(* number by zero (numpy yields inf or nan there, it does not raise).      *)
(* Possessions are kept in hundredths: 0.44 * FTA is 44 * FTA hundredths.  *)
(* Minutes are kept in sixtieths (seconds): M + S / 60 is 60 * M + S.      *)
(***************************************************************************)
EXTENDS Integers, Sequences, FiniteSets, TLC

VARIABLES
    team_df,          \* the team box score table: a sequence of team rows
    player_df,        \* the player statistics table: a sequence of player rows
    analyzer,         \* the GameAnalyzer object (phase "new" before __init__)
    efficiency,       \* last result of calculate_efficiency_metrics, or NoResult
    turnovers,        \* last result of analyze_turnovers, or NoResult
    rebounding,       \* last result of analyze_rebounding, or NoResult
    shot_selection,   \* last result of optimize_shot_selection, or NoResult
    shots_df,         \* the caller's shot table: a sequence of shot rows
    grid,             \* [rows, cols]: the grid passed to calculate_zone_stats
    zone_stats,       \* the table calculate_zone_stats returned, or NoResult
    generator,        \* the GammaPromptGenerator's own four results, or NoResult
    run,              \* the run of analyze_game_stats.main: position and inputs
    shot_run,         \* the run of main.main (shot zones): position and inputs
    files             \* the output files: "absent", "partial" or "written"

gameVars == <<team_df, player_df, analyzer, efficiency, turnovers, rebounding,
              shot_selection, generator, run>>
zoneVars == <<shots_df, grid, zone_stats, shot_run>>
vars == <<team_df, player_df, analyzer, efficiency, turnovers, rebounding,
          shot_selection, generator, run, shots_df, grid, zone_stats, shot_run, files>>

NoResult == [k |-> "none"]

----------------------------------------------------------------------------
(* Floats *)

Num(v) == [k |-> "num", v |-> v]
NaN == [k |-> "nan", v |-> 0]
Inf == [k |-> "inf", v |-> 0]

\* pd.notna / pd.isna on a cell
notna(c) == c.k # "nan"

Abs(n) == IF n < 0 THEN -n ELSE n

\* n / d rounded to the nearest integer, ties to even (Python's round), d > 0
RoundHalfEven(n, d) ==
    LET q == n \div d
        r == n % d
    IN  IF 2 * r < d THEN q
        ELSE IF 2 * r > d THEN q + 1
        ELSE IF q % 2 = 0 THEN q ELSE q + 1

\* round(n / d * scale, digits) as a float: numpy's division does not raise on
\* a zero denominator, it yields nan (0 / 0) or inf (x / 0)
FDiv(n, d, scale) ==
    IF d = 0 THEN (IF n = 0 THEN NaN ELSE Inf)
    ELSE IF d > 0 THEN Num(RoundHalfEven(n * scale, d))
    ELSE Num(RoundHalfEven((-n) * scale, -d))

----------------------------------------------------------------------------
(* GameAnalyzer: construction *)

\* a negative estimate clamped to 0
calculate_possessions_clamped(team_stats) ==
    LET p == 100 * (team_stats.FGAttempts - team_stats.OffensiveRebounds
                    + team_stats.Turnovers) + 44 * team_stats.FTAtt
    IN  IF p < 0 THEN 0 ELSE p

\* a sign slip: turnovers subtracted
calculate_possessions_minus_to(team_stats) ==
    100 * (team_stats.FGAttempts - team_stats.OffensiveRebounds
           - team_stats.Turnovers) + 44 * team_stats.FTAtt

\* possessions = fga - orb + to + (0.44 * fta), in hundredths
calculate_possessions(team_stats) ==
    100 * (team_stats.FGAttempts - team_stats.OffensiveRebounds
           + team_stats.Turnovers) + 44 * team_stats.FTAtt

\* df[df[col] == value]: the rows that match, in table order
RECURSIVE FilterTeam(_, _)
FilterTeam(df, name) ==
    IF df = <<>> THEN <<>>
    ELSE IF Head(df).Team = name
         THEN <<Head(df)>> \o FilterTeam(Tail(df), name)
         ELSE FilterTeam(Tail(df), name)

\* The arguments analyze_game_stats.main passes (and __init__'s defaults)
OurTeamName == "Harker"
OpponentTeamName == "Aptos"

\* GameAnalyzer.__init__.  .iloc[0] of an empty selection raises IndexError:
\* the object is not constructed.
NewAnalyzer(tdf, pdf, our_team, opponent_team) ==
    LET ours == FilterTeam(tdf, our_team)
        opps == FilterTeam(tdf, opponent_team)
    IN  IF ours = <<>> \/ opps = <<>>
        THEN [phase |-> "failed"]
        ELSE [phase |-> "ready",
              our_team |-> our_team,
              opponent_team |-> opponent_team,
              our_team_stats |-> Head(ours),
              opponent_stats |-> Head(opps),
              our_players |-> FilterTeam(pdf, "home"),
              our_possessions |-> calculate_possessions(Head(ours)),
              opponent_possessions |-> calculate_possessions(Head(opps))]

----------------------------------------------------------------------------
(* GameAnalyzer.calculate_efficiency_metrics *)

\* points / possessions if possessions > 0 else 0, as round(x, 3): thousandths
PointsPerPossessionUnguarded(points, possessions) ==
    FDiv(points * 100, possessions, 1000)

PointsPerPossession(points, possessions) ==
    IF possessions > 0 THEN FDiv(points * 100, possessions, 1000) ELSE Num(0)

\* points / fga if fga > 0 else 0, as round(x, 3): thousandths
PointsPerShot(points, fga) ==
    IF fga > 0 THEN FDiv(points, fga, 1000) ELSE Num(0)

\* pct / 100 if pd.notna(pct) else 0, then round(x * 100, 2): hundredths of a
\* percent in, hundredths of a percent out
PctOrZero(pct) ==
    IF notna(pct) THEN Num(RoundHalfEven(pct.v * 100, 100)) ELSE Num(0)

\* (made / attempts * 100) if attempts > 0 else 0, as round(x, 2): hundredths
SplitPct(made, attempts) ==
    IF attempts > 0 THEN FDiv(made * 100, attempts, 100) ELSE Num(0)

\* an expected value that counts every shot type as worth 2 points
SplitPpsTwoPoints(made, attempts, value) ==
    IF attempts > 0 THEN FDiv(made * 2, attempts, 1000) ELSE Num(0)

\* pct / 100 * value from the unrounded pct, as round(x, 3): thousandths
SplitPps(made, attempts, value) ==
    IF attempts > 0 THEN FDiv(made * value, attempts, 1000) ELSE Num(0)

efficiency_metrics(a) ==
    LET our == a.our_team_stats
        opp == a.opponent_stats
    IN  [k |-> "efficiency",
         our_team |->
           [points |-> our.Points,
            possessions |-> a.our_possessions,
            ppp |-> PointsPerPossession(our.Points, a.our_possessions),
            pps |-> PointsPerShot(our.Points, our.FGAttempts),
            efg |-> PctOrZero(our.EffectiveFieldGoalPct),
            ts |-> PctOrZero(our.TrueShootingPct),
            fgm2 |-> our.TwoFGMade,
            fga2 |-> our.TwoFGAttempts,
            pct2 |-> SplitPct(our.TwoFGMade, our.TwoFGAttempts),
            pps2 |-> SplitPps(our.TwoFGMade, our.TwoFGAttempts, 2),
            fgm3 |-> our.ThreeFGMade,
            fga3 |-> our.ThreeFGAttempts,
            pct3 |-> SplitPct(our.ThreeFGMade, our.ThreeFGAttempts),
            pps3 |-> SplitPps(our.ThreeFGMade, our.ThreeFGAttempts, 3)],
         opponent |->
           [points |-> opp.Points,
            possessions |-> a.opponent_possessions,
            ppp |-> PointsPerPossession(opp.Points, a.opponent_possessions),
            pps |-> PointsPerShot(opp.Points, opp.FGAttempts),
            efg |-> PctOrZero(opp.EffectiveFieldGoalPct),
            ts |-> PctOrZero(opp.TrueShootingPct)]]

----------------------------------------------------------------------------
(* Strings: a str cell is [k |-> "str", s |-> a sequence of characters] *)

Str(s) == [k |-> "str", s |-> s]

\* The sentinel of the data files, the one-character string U+2014 (em dash)
EmDash == "EMDASH"

Digits == {"0", "1", "2", "3", "4", "5", "6", "7", "8", "9"}

DigitVal(c) ==
    CASE c = "0" -> 0 [] c = "1" -> 1 [] c = "2" -> 2 [] c = "3" -> 3
      [] c = "4" -> 4 [] c = "5" -> 5 [] c = "6" -> 6 [] c = "7" -> 7
      [] c = "8" -> 8 [] c = "9" -> 9

\* str.split(':'): the parts between the colons (n colons give n + 1 parts)
RECURSIVE Split(_, _)
Split(s, cur) ==
    IF s = <<>> THEN <<cur>>
    ELSE IF Head(s) = ":" THEN <<cur>> \o Split(Tail(s), <<>>)
    ELSE Split(Tail(s), Append(cur, Head(s)))

RECURSIVE StripLeft(_)
StripLeft(s) ==
    IF s # <<>> /\ Head(s) = " " THEN StripLeft(Tail(s)) ELSE s

RECURSIVE StripRight(_)
StripRight(s) ==
    IF s # <<>> /\ s[Len(s)] = " " THEN StripRight(SubSeq(s, 1, Len(s) - 1))
    ELSE s

RECURSIVE DigitsValue(_, _)
DigitsValue(s, acc) ==
    IF s = <<>> THEN acc ELSE DigitsValue(Tail(s), 10 * acc + DigitVal(Head(s)))

\* int(part): surrounding blanks are stripped, one sign is allowed, the rest
\* must be one or more decimal digits; anything else raises ValueError
IntParse(part) ==
    LET t == StripRight(StripLeft(part))
        signed == t # <<>> /\ Head(t) \in {"-", "+"}
        body == IF signed THEN Tail(t) ELSE t
    IN  IF body # <<>> /\ \A i \in 1..Len(body) : body[i] \in Digits
        THEN [ok |-> TRUE,
              v |-> IF signed /\ Head(t) = "-" THEN -DigitsValue(body, 0)
                    ELSE DigitsValue(body, 0)]
        ELSE [ok |-> FALSE, v |-> 0]

\* GameAnalyzer._parse_minutes: decimal minutes in sixtieths
parse_minutes_no_except(time_str) ==
    IF time_str.k = "nan" \/ time_str = Str(<<EmDash>>) THEN 0
    ELSE IF time_str.k # "str" THEN 0
    ELSE LET parts == Split(time_str.s, <<>>)
         IN  IF Len(parts) = 2
             THEN 60 * IntParse(parts[1]).v + IntParse(parts[2]).v
             ELSE 0

parse_minutes(time_str) ==
    IF time_str.k = "nan" \/ time_str = Str(<<EmDash>>) THEN 0
    ELSE IF time_str.k # "str" THEN 0   \* str(number) holds no colon
    ELSE LET parts == Split(time_str.s, <<>>)
         IN  IF Len(parts) = 2
             THEN IF IntParse(parts[1]).ok /\ IntParse(parts[2]).ok
                  THEN 60 * IntParse(parts[1]).v + IntParse(parts[2]).v
                  ELSE 0                \* except: return 0.0
             ELSE 0

\* (count / minutes * 36) if minutes > 0 else 0, as round(x, 2): hundredths
Per36Unguarded(count, minutes) ==
    FDiv(count * 36 * 60, minutes, 100)

Per36(count, minutes) ==
    IF minutes > 0 THEN FDiv(count * 36 * 60, minutes, 100) ELSE Num(0)

\* cell if pd.notna(cell) else 0, as round(x, 2)
CellOrZero(c) == IF notna(c) THEN c ELSE Num(0)

----------------------------------------------------------------------------
(* list.sort(key=..., reverse=True): descending, and stable (entries with    *)
(* equal keys keep their order)                                              *)

\* where e goes in a descending list: behind every entry whose key is >= its own
RECURSIVE InsertDescBeforeTies(_, _, _)
InsertDescBeforeTies(sorted, e, key) ==
    IF sorted = <<>> THEN <<e>>
    ELSE IF Head(sorted)[key] > e[key]
         THEN <<Head(sorted)>> \o InsertDescBeforeTies(Tail(sorted), e, key)
         ELSE <<e>> \o sorted

RECURSIVE InsertDesc(_, _, _)
InsertDesc(sorted, e, key) ==
    IF sorted = <<>> THEN <<e>>
    ELSE IF Head(sorted)[key] >= e[key]
         THEN <<Head(sorted)>> \o InsertDesc(Tail(sorted), e, key)
         ELSE <<e>> \o sorted

RECURSIVE SortDesc(_, _)
SortDesc(list, key) ==
    IF list = <<>> THEN <<>>
    ELSE InsertDesc(SortDesc(SubSeq(list, 1, Len(list) - 1), key),
                    list[Len(list)], key)

\* the last n entries instead of the first
TakeLast(list, n) ==
    SubSeq(list, IF Len(list) < n THEN 1 ELSE Len(list) - n + 1, Len(list))

\* list[:n]
Take(list, n) == SubSeq(list, 1, IF Len(list) < n THEN Len(list) ELSE n)

----------------------------------------------------------------------------
(* GameAnalyzer.analyze_turnovers *)

\* (to / possessions * 100) if possessions > 0 else 0, as round(x, 2)
TurnoverRateUnguarded(to, possessions) ==
    FDiv(to * 100 * 100, possessions, 100)

TurnoverRate(to, possessions) ==
    IF possessions > 0 THEN FDiv(to * 100 * 100, possessions, 100) ELSE Num(0)

\* a comparison that also holds at the threshold itself
TurnoverRateAtLeast(to, possessions, k) ==
    IF possessions > 0 THEN to * 100 * 100 >= k * possessions ELSE 0 >= k

\* the unrounded rate > k percent (the recommendations compare before rounding)
TurnoverRateAbove(to, possessions, k) ==
    IF possessions > 0 THEN to * 100 * 100 > k * possessions ELSE 0 > k

\* cell < bound and cell > bound on a float cell: every comparison with nan
\* is False
CellBelow(c, bound) == c.k = "num" /\ c.v < bound
CellAbove(c, bound) == c.k = "inf" \/ (c.k = "num" /\ c.v > bound)

\* a loop that also lists the players with no turnover
RECURSIVE player_turnovers_from_zero(_)
player_turnovers_from_zero(players) ==
    IF players = <<>> THEN <<>>
    ELSE LET player == Head(players)
             minutes == parse_minutes(player.BasicMP)
         IN  IF notna(player.BasicTO) /\ player.BasicTO.v >= 0
             THEN <<[player |-> player.Athlete,
                     number |-> player.Number,
                     turnovers |-> player.BasicTO.v,
                     to_per_36 |-> Per36(player.BasicTO.v, minutes),
                     ast_to_ratio |-> CellOrZero(player.AdvancedASTTO),
                     usage |-> CellOrZero(player.AdvancedUSG),
                     minutes |-> minutes]>>
                  \o player_turnovers_from_zero(Tail(players))
             ELSE player_turnovers_from_zero(Tail(players))

\* the loop over self.our_players of analyze_turnovers, in table order
RECURSIVE player_turnovers(_)
player_turnovers(players) ==
    IF players = <<>> THEN <<>>
    ELSE LET player == Head(players)
             minutes == parse_minutes(player.BasicMP)
         IN  IF notna(player.BasicTO) /\ player.BasicTO.v > 0
             THEN <<[player |-> player.Athlete,
                     number |-> player.Number,
                     turnovers |-> player.BasicTO.v,
                     to_per_36 |-> Per36(player.BasicTO.v, minutes),
                     ast_to_ratio |-> CellOrZero(player.AdvancedASTTO),
                     usage |-> CellOrZero(player.AdvancedUSG),
                     minutes |-> minutes]>>
                  \o player_turnovers(Tail(players))
             ELSE player_turnovers(Tail(players))

Flag(name) == [flag |-> name, player |-> "", number |-> 0]

turnover_recommendations(a, ranked) ==
    LET our == a.our_team_stats
    IN  (IF TurnoverRateAbove(our.Turnovers, a.our_possessions, 20)
         THEN <<Flag("critical")>>
         ELSE IF TurnoverRateAbove(our.Turnovers, a.our_possessions, 15)
         THEN <<Flag("elevated")>>
         ELSE <<>>)
        \o (IF CellBelow(our.ASTTORatio, 100)
            THEN <<Flag("low_ast_to")>> ELSE <<>>)
        \o (IF Len(ranked) > 0 /\ CellAbove(ranked[1].to_per_36, 500)
            THEN <<[flag |-> "player", player |-> ranked[1].player,
                    number |-> ranked[1].number]>>
            ELSE <<>>)

\* our_to * our['Points Per Possession'] (a supplied column, in thousandths),
\* as round(x, 2): hundredths
PotentialPointsLost(to, ppp) ==
    IF notna(ppp) THEN Num(RoundHalfEven(to * ppp.v, 10)) ELSE NaN

\* a str cell where the loop compares or rounds a number: TypeError
turnover_row_raises(player) ==
    \/ player.BasicTO.k = "str"
    \/ /\ notna(player.BasicTO) /\ player.BasicTO.v > 0
       /\ (player.AdvancedASTTO.k = "str" \/ player.AdvancedUSG.k = "str")

turnover_analysis(a) ==
    LET our == a.our_team_stats
        opp == a.opponent_stats
        ranked == SortDesc(player_turnovers(a.our_players), "turnovers")
    IN  IF \E i \in 1..Len(a.our_players) : turnover_row_raises(a.our_players[i])
        THEN [k |-> "error"]
        ELSE
        [k |-> "turnovers",
         our_turnovers |-> our.Turnovers,
         opponent_turnovers |-> opp.Turnovers,
         our_to_rate |-> TurnoverRate(our.Turnovers, a.our_possessions),
         opp_to_rate |-> TurnoverRate(opp.Turnovers, a.opponent_possessions),
         our_ast_to_ratio |-> our.ASTTORatio,
         our_turnover_pct |-> our.TurnoverPct,
         potential_points_lost |->
             PotentialPointsLost(our.Turnovers, our.PointsPerPossession),
         top_turnover_players |-> Take(ranked, 5),
         recommendations |-> turnover_recommendations(a, ranked)]

----------------------------------------------------------------------------
(* GameAnalyzer.analyze_rebounding *)

\* the loop over self.our_players of analyze_rebounding, in table order
RECURSIVE player_rebounds(_)
player_rebounds(players) ==
    IF players = <<>> THEN <<>>
    ELSE LET player == Head(players)
             minutes == parse_minutes(player.BasicMP)
         IN  IF notna(player.BasicTRB) /\ player.BasicTRB.v > 0
             THEN <<[player |-> player.Athlete,
                     number |-> player.Number,
                     total_reb |-> player.BasicTRB.v,
                     orb |-> player.BasicORB,
                     drb |-> player.BasicDRB,
                     reb_per_36 |-> Per36(player.BasicTRB.v, minutes),
                     orb_pct |-> CellOrZero(player.AdvancedORBPct),
                     drb_pct |-> CellOrZero(player.AdvancedDRBPct),
                     minutes |-> minutes]>>
                  \o player_rebounds(Tail(players))
             ELSE player_rebounds(Tail(players))

rebound_row_raises(player) ==
    \/ player.BasicTRB.k = "str"
    \/ /\ notna(player.BasicTRB) /\ player.BasicTRB.v > 0
       /\ (player.AdvancedORBPct.k = "str" \/ player.AdvancedDRBPct.k = "str")

\* the four tests as one chain, the first that holds ending it
rebound_recommendations_chained(a) ==
    LET our == a.our_team_stats
        opp == a.opponent_stats
    IN  IF CellBelow(our.OffensiveReboundingPct, 2500)
        THEN <<Flag("orb_below_average")>>
        ELSE IF CellAbove(opp.OffensiveReboundingPct, 3500)
        THEN <<Flag("opponent_orb_strong")>>
        ELSE IF our.Rebounds - opp.Rebounds < -5
        THEN <<Flag("losing_rebounding_battle")>>
        ELSE IF our.OffensiveRebounds - opp.OffensiveRebounds < -3
        THEN <<Flag("giving_up_offensive_rebounds")>>
        ELSE <<>>

rebound_recommendations(a) ==
    LET our == a.our_team_stats
        opp == a.opponent_stats
    IN  (IF CellBelow(our.OffensiveReboundingPct, 2500)
         THEN <<Flag("orb_below_average")>> ELSE <<>>)
        \o (IF CellAbove(opp.OffensiveReboundingPct, 3500)
            THEN <<Flag("opponent_orb_strong")>> ELSE <<>>)
        \o (IF our.Rebounds - opp.Rebounds < -5
            THEN <<Flag("losing_rebounding_battle")>> ELSE <<>>)
        \o (IF our.OffensiveRebounds - opp.OffensiveRebounds < -3
            THEN <<Flag("giving_up_offensive_rebounds")>> ELSE <<>>)

rebounding_analysis(a) ==
    LET our == a.our_team_stats
        opp == a.opponent_stats
        ranked == SortDesc(player_rebounds(a.our_players), "total_reb")
    IN  IF \E i \in 1..Len(a.our_players) : rebound_row_raises(a.our_players[i])
        THEN [k |-> "error"]
        ELSE
        [k |-> "rebounding",
         our_team |->
           [total_rebounds |-> our.Rebounds,
            offensive_rebounds |-> our.OffensiveRebounds,
            defensive_rebounds |-> our.DefensiveRebounds,
            orb_pct |-> our.OffensiveReboundingPct,
            drb_pct |-> our.DefensiveReboundingPct],
         opponent |->
           [total_rebounds |-> opp.Rebounds,
            offensive_rebounds |-> opp.OffensiveRebounds,
            defensive_rebounds |-> opp.DefensiveRebounds,
            orb_pct |-> opp.OffensiveReboundingPct,
            drb_pct |-> opp.DefensiveReboundingPct],
         rebound_margin |-> our.Rebounds - opp.Rebounds,
         orb_margin |-> our.OffensiveRebounds - opp.OffensiveRebounds,
         second_chance_opps |->
           [our_team |-> our.OffensiveRebounds,
            opponent |-> opp.OffensiveRebounds],
         top_rebounders |-> Take(ranked, 5),
         recommendations |-> rebound_recommendations(a)]

----------------------------------------------------------------------------
(* GameAnalyzer.optimize_shot_selection *)

RECURSIVE Pow10(_)
Pow10(n) == IF n = 0 THEN 1 ELSE 10 * Pow10(n - 1)

\* float(str) on decimal notation: blanks stripped, one sign, digits with at
\* most one point and at least one digit; the value in 1/scale units
FloatParse(str, scale) ==
    LET t == StripRight(StripLeft(str))
        signed == t # <<>> /\ Head(t) \in {"-", "+"}
        body == IF signed THEN Tail(t) ELSE t
        dots == {i \in 1..Len(body) : body[i] = "."}
        dot == IF dots = {} THEN Len(body) + 1 ELSE CHOOSE i \in dots : TRUE
        whole == SubSeq(body, 1, dot - 1)
        frac == SubSeq(body, dot + 1, Len(body))
        mag == DigitsValue(whole, 0) * scale
               + RoundHalfEven(DigitsValue(frac, 0) * scale, Pow10(Len(frac)))
    IN  IF /\ Cardinality(dots) <= 1
           /\ Len(whole) + Len(frac) >= 1
           /\ \A i \in 1..Len(body) : i \in dots \/ body[i] \in Digits
        THEN [ok |-> TRUE,
              v |-> IF signed /\ Head(t) = "-" THEN -mag ELSE mag]
        ELSE [ok |-> FALSE, v |-> 0]

\* safe_float(val, 0): nan, the sentinel and '' give the default; what float()
\* rejects gives the default too
safe_float(val, scale) ==
    IF val.k = "nan" \/ val = Str(<<EmDash>>) \/ val = Str(<<>>) THEN 0
    ELSE IF val.k = "str"
         THEN (IF FloatParse(val.s, scale).ok
               THEN FloatParse(val.s, scale).v ELSE 0)
    ELSE val.v

\* int(cell) if pd.notna(cell) else 0
IntOrZero(c) ==
    IF c.k = "nan" THEN 0
    ELSE IF c.k = "str" THEN IntParse(c.s).v
    ELSE c.v

\* the loop over self.our_players of optimize_shot_selection, in table order
RECURSIVE player_shots(_)
player_shots(players) ==
    IF players = <<>> THEN <<>>
    ELSE LET player == Head(players)
             fg_pct == safe_float(player.BasicFGPct, 10000)
         IN  IF notna(player.BasicFGA) /\ player.BasicFGA.v > 0
             THEN <<[player |-> player.Athlete,
                     number |-> player.Number,
                     fga |-> player.BasicFGA.v,
                     fgm |-> IntOrZero(player.BasicFGM),
                     fg_pct |-> IF fg_pct > 0
                                THEN RoundHalfEven(fg_pct * 100, 100) ELSE 0,
                     efg |-> safe_float(player.ShootingEFG, 100),
                     ts |-> safe_float(player.ShootingTS, 100),
                     usage |-> safe_float(player.AdvancedUSG, 100)]>>
                  \o player_shots(Tail(players))
             ELSE player_shots(Tail(players))

\* '>' between str and int: TypeError; int() of a str that is no integer
\* literal: ValueError
shot_row_raises(player) ==
    \/ player.BasicFGA.k = "str"
    \/ /\ notna(player.BasicFGA) /\ player.BasicFGA.v > 0
       /\ player.BasicFGM.k = "str" /\ ~IntParse(player.BasicFGM.s).ok

\* pct / 100 * value, as round(x, 3): the percentage cell is in hundredths
ExpectedValue(pct, value) ==
    IF notna(pct) THEN Num(RoundHalfEven(pct.v * value, 10)) ELSE NaN

\* f"{x:.2f}" of pct / 100 * value: hundredths
ExpectedValueText(pct, value) ==
    IF notna(pct) THEN Num(RoundHalfEven(pct.v * value, 100)) ELSE NaN

\* attempts / total_fga if total_fga > 0 else 0, as round(x * 100, 2)
AttemptRate(attempts, total_fga) ==
    IF total_fga > 0 THEN FDiv(attempts * 100, total_fga, 100) ELSE Num(0)

\* Pairs (2FG%, 3FG%) in hundredths whose expected values are equal but whose
\* binary products are not, the 3-point one being the larger: 40.0 / 100 * 3
\* is 1.2000000000000002 and 60.0 / 100 * 2 is 1.2.  (At 75.0 and 50.0 both
\* products are 1.5; at 45.0 and 30.0 the 3-point product is the smaller.)
TiesRoundedUp == {<<6000, 4000>>, <<3000, 2000>>, <<1500, 1000>>}

\* our_3pt_expected > our_2pt_expected on the unrounded floats; False with
\* nan.  Unequal expected values of percentages with two decimals compare as
\* the exact values do.
ThreeBeatsTwo(pct2, pct3) ==
    /\ notna(pct2) /\ notna(pct3)
    /\ (pct3.v * 3 > pct2.v * 2 \/ <<pct2.v, pct3.v>> \in TiesRoundedUp)

optimal_mix(our) ==
    IF ThreeBeatsTwo(our.TwoFGPct, our.ThreeFGPct)
    THEN [recommendation |-> "Increase 3-point attempts",
          greater |-> "3PT",
          greater_value |-> ExpectedValueText(our.ThreeFGPct, 3),
          lesser |-> "2PT",
          lesser_value |-> ExpectedValueText(our.TwoFGPct, 2)]
    ELSE [recommendation |-> "Focus on high-percentage 2-point shots",
          greater |-> "2PT",
          greater_value |-> ExpectedValueText(our.TwoFGPct, 2),
          lesser |-> "3PT",
          lesser_value |-> ExpectedValueText(our.ThreeFGPct, 3)]

\* the first test passing on either of its two conditions
shot_recommendations_either(our) ==
    (IF \/ CellBelow(our.ThreeFGPct, 3000)
        \/ our.FGAttempts > 0 /\ 2 * our.ThreeFGAtt > our.FGAttempts
     THEN <<Flag("inefficient_high_volume_3s")>> ELSE <<>>)
    \o (IF CellBelow(our.TwoFGPct, 4000)
        THEN <<Flag("improve_shot_selection")>> ELSE <<>>)

shot_recommendations(our) ==
    (IF /\ CellBelow(our.ThreeFGPct, 3000)
        /\ our.FGAttempts > 0 /\ 2 * our.ThreeFGAtt > our.FGAttempts
     THEN <<Flag("inefficient_high_volume_3s")>> ELSE <<>>)
    \o (IF CellBelow(our.TwoFGPct, 4000)
        THEN <<Flag("improve_shot_selection")>> ELSE <<>>)

shot_selection_analysis(a) ==
    LET our == a.our_team_stats
        ranked == SortDesc(player_shots(a.our_players), "fga")
    IN  IF \E i \in 1..Len(a.our_players) : shot_row_raises(a.our_players[i])
        THEN [k |-> "error"]
        ELSE
        [k |-> "shot_selection",
         expected_value_2pt |-> ExpectedValue(our.TwoFGPct, 2),
         expected_value_3pt |-> ExpectedValue(our.ThreeFGPct, 3),
         current_2pt_rate |-> AttemptRate(our.TwoFGAttempts, our.FGAttempts),
         current_3pt_rate |-> AttemptRate(our.ThreeFGAtt, our.FGAttempts),
         optimal_mix |-> optimal_mix(our),
         top_shooters |-> Take(ranked, 5),
         recommendations |-> shot_recommendations(our)]

----------------------------------------------------------------------------
(* analyze_game_stats.main: one action per step of the run *)

GameOutputs == <<"gamma_report_prompt.txt", "game_summary.txt">>

\* what a step that writes a file can leave: the whole file, a file cut short
\* (the write raised), or no file (open raised)
WriteOutcomes == {"written", "partial", "absent"}

Fail(r, msg) == [r EXCEPT !.pc = "done", !.exit = msg]

\* lines 16-36: with two arguments the paths are taken as given; without, the
\* default paths are checked and a missing file is reported
ResolvePaths ==
    /\ run.pc = "paths"
    /\ run' = IF run.argv THEN [run EXCEPT !.pc = "construct"]
              ELSE IF ~run.team_exists THEN Fail(run, "team file not found")
              ELSE IF ~run.player_exists THEN Fail(run, "player file not found")
              ELSE [run EXCEPT !.pc = "construct"]
    /\ UNCHANGED <<team_df, player_df, analyzer, efficiency, turnovers,
                   rebounding, shot_selection, generator, zoneVars, files>>

\* lines 45-58: GameAnalyzer(...); pd.read_csv of a missing file raises, and
\* every exception of the try block is caught at line 194
Construct ==
    /\ run.pc = "construct"
    /\ LET a == IF run.team_exists /\ run.player_exists
                THEN NewAnalyzer(team_df, player_df, OurTeamName,
                                 OpponentTeamName)
                ELSE [phase |-> "failed"]
       IN  /\ analyzer' = a
           /\ run' = IF a.phase = "ready" THEN [run EXCEPT !.pc = "efficiency"]
                     ELSE Fail(run, "ERROR")
    /\ UNCHANGED <<team_df, player_df, efficiency, turnovers, rebounding,
                   shot_selection, generator, zoneVars, files>>

Step(r, result, next) ==
    IF result.k = "error" THEN Fail(r, "ERROR") ELSE [r EXCEPT !.pc = next]

\* line 65
CalculateEfficiency ==
    /\ run.pc = "efficiency"
    /\ efficiency' = efficiency_metrics(analyzer)
    /\ run' = Step(run, efficiency', "turnovers")
    /\ UNCHANGED <<team_df, player_df, analyzer, turnovers, rebounding,
                   shot_selection, generator, zoneVars, files>>

\* line 87
AnalyzeTurnovers ==
    /\ run.pc = "turnovers"
    /\ turnovers' = turnover_analysis(analyzer)
    /\ run' = Step(run, turnovers', "rebounding")
    /\ UNCHANGED <<team_df, player_df, analyzer, efficiency, rebounding,
                   shot_selection, generator, zoneVars, files>>

\* line 104
AnalyzeRebounding ==
    /\ run.pc = "rebounding"
    /\ rebounding' = rebounding_analysis(analyzer)
    /\ run' = Step(run, rebounding', "shot_selection")
    /\ UNCHANGED <<team_df, player_df, analyzer, efficiency, turnovers,
                   shot_selection, generator, zoneVars, files>>

\* line 121
OptimizeShotSelection ==
    /\ run.pc = "shot_selection"
    /\ shot_selection' = shot_selection_analysis(analyzer)
    /\ run' = Step(run, shot_selection', "report")
    /\ UNCHANGED <<team_df, player_df, analyzer, efficiency, turnovers,
                   rebounding, generator, zoneVars, files>>

\* GammaPromptGenerator.__init__: the four analyses are computed once more
NewGenerator(a) ==
    [k |-> "generator",
     efficiency |-> efficiency_metrics(a),
     turnovers |-> turnover_analysis(a),
     rebounding |-> rebounding_analysis(a),
     shot_selection |-> shot_selection_analysis(a)]

\* lines 136-141: the generator is built and the prompt text generated
GenerateReport ==
    /\ run.pc = "report"
    /\ generator' = NewGenerator(analyzer)
    /\ run' = IF "error" \in {generator'.turnovers.k, generator'.rebounding.k,
                              generator'.shot_selection.k}
              THEN Fail(run, "ERROR")
              ELSE [run EXCEPT !.pc = "write_prompt"]
    /\ UNCHANGED <<team_df, player_df, analyzer, efficiency, turnovers,
                   rebounding, shot_selection, zoneVars, files>>

\* lines 142-144: open(gamma_prompt_path, 'w') and f.write
WritePrompt ==
    /\ run.pc = "write_prompt"
    /\ \E outcome \in WriteOutcomes :
         /\ files' = [files EXCEPT ![GameOutputs[1]] = outcome]
         /\ run' = IF outcome = "written"
                   THEN [run EXCEPT !.pc = "write_summary"]
                   ELSE Fail(run, "ERROR")
    /\ UNCHANGED <<team_df, player_df, analyzer, efficiency, turnovers,
                   rebounding, shot_selection, generator, zoneVars>>

\* lines 147-200: the summary is formatted and written, then return 0
WriteSummary ==
    /\ run.pc = "write_summary"
    /\ \E outcome \in WriteOutcomes :
         /\ files' = [files EXCEPT ![GameOutputs[2]] = outcome]
         /\ run' = IF outcome = "written"
                   THEN [run EXCEPT !.pc = "done", !.exit = "ok"]
                   ELSE Fail(run, "ERROR")
    /\ UNCHANGED <<team_df, player_df, analyzer, efficiency, turnovers,
                   rebounding, shot_selection, generator, zoneVars>>

NextGame ==
    \/ ResolvePaths
    \/ Construct
    \/ CalculateEfficiency
    \/ AnalyzeTurnovers
    \/ AnalyzeRebounding
    \/ OptimizeShotSelection
    \/ GenerateReport
    \/ WritePrompt
    \/ WriteSummary

----------------------------------------------------------------------------
(* Input tables of the game analysis *)

Chars(str) == Str(str)

\* a row of the team box score as pd.read_csv yields it: counts are integers,
\* percentage and ratio columns are float cells (hundredths; Points Per
\* Possession in thousandths)
DefaultTeam(name) ==
    [Team |-> name, Points |-> 70, FGAttempts |-> 60, OffensiveRebounds |-> 10,
     Turnovers |-> 12, FTAtt |-> 15,
     TwoFGMade |-> 20, TwoFGAttempts |-> 40,
     ThreeFGMade |-> 6, ThreeFGAttempts |-> 20, ThreeFGAtt |-> 20,
     EffectiveFieldGoalPct |-> Num(4833), TrueShootingPct |-> Num(5255),
     TwoFGPct |-> Num(5000), ThreeFGPct |-> Num(3000),
     ASTTORatio |-> Num(125), TurnoverPct |-> Num(1749),
     PointsPerPossession |-> Num(1020),
     OffensiveReboundingPct |-> Num(3000), DefensiveReboundingPct |-> Num(7000),
     Rebounds |-> 30, DefensiveRebounds |-> 20]

\* a row of the player statistics table
DefaultPlayer(i, team) ==
    [Athlete |-> ToString(i), Number |-> i, Team |-> team,
     BasicTO |-> Num(1), BasicTRB |-> Num(1), BasicORB |-> Num(0),
     BasicDRB |-> Num(1), BasicFGA |-> Num(1), BasicFGM |-> Num(1),
     BasicMP |-> Str(<<"2", "4", ":", "3", "0">>),
     AdvancedASTTO |-> Num(150), AdvancedUSG |-> Num(2000),
     AdvancedORBPct |-> Num(500), AdvancedDRBPct |-> Num(1500),
     BasicFGPct |-> Num(5000), ShootingEFG |-> Num(5000),
     ShootingTS |-> Num(5500)]

NewRun(argv, team_exists, player_exists) ==
    [pc |-> "paths", argv |-> argv, team_exists |-> team_exists,
     player_exists |-> player_exists, exit |-> "running"]

AllOutputs ==
    {"gamma_report_prompt.txt", "game_summary.txt", "zone_statistics.csv",
     "shot_chart_comparison.png", "shot_chart_combined.png",
     "shot_chart_pps.png", "shot_chart_ppp.png"}

\* before a run: nothing computed, no output file
GameIdle ==
    /\ analyzer = [phase |-> "new"]
    /\ efficiency = NoResult
    /\ turnovers = NoResult
    /\ rebounding = NoResult
    /\ shot_selection = NoResult
    /\ generator = NoResult
    /\ files = [f \in AllOutputs |-> "absent"]

\* the shot zone program is not run
ZoneIdle ==
    /\ shots_df = <<>>
    /\ grid = [rows |-> 5, cols |-> 5]
    /\ zone_stats = NoResult
    /\ shot_run = [pc |-> "idle"]

\* Team totals, malformed (negative) ones included.  FGA = 60, ORB = 10,
\* TO = 12, FTA = 15 is the documented example.
FGAValues == {-5, 0, 60}
ORBValues == {0, 10, 12}
TOValues == {0, 12}
FTAValues == {0, 15, 25}
PointsValues == {0, 70}

OurRows ==
    {[DefaultTeam(OurTeamName) EXCEPT !.FGAttempts = fga,
          !.OffensiveRebounds = orb, !.Turnovers = to, !.FTAtt = fta,
          !.Points = pts] :
       fga \in FGAValues, orb \in ORBValues, to \in TOValues,
       fta \in FTAValues, pts \in PointsValues}

OpponentRows ==
    {[DefaultTeam(OpponentTeamName) EXCEPT !.FGAttempts = fga,
          !.OffensiveRebounds = orb, !.Turnovers = to, !.FTAtt = fta] :
       fga \in {0, 60}, orb \in {0, 10}, to \in {0, 12}, fta \in {0, 25}}

\* SpecTeams: the run on every pair of team rows, in either file order
InitTeams ==
    /\ \E our \in OurRows, opp \in OpponentRows :
         team_df \in {<<our, opp>>, <<opp, our>>}
    /\ player_df = <<DefaultPlayer(1, "home"), DefaultPlayer(2, "away")>>
    /\ run = NewRun(TRUE, TRUE, TRUE)
    /\ GameIdle
    /\ ZoneIdle

SpecTeams == InitTeams /\ [][NextGame]_vars

----------------------------------------------------------------------------
(* Possession estimate and possession-normalized metrics (SpecTeams) *)

\* the row .iloc[0] selects: the first row of the table with that team name
FirstRow(df, name) ==
    df[CHOOSE i \in 1..Len(df) :
         df[i].Team = name /\ \A j \in 1..(i - 1) : df[j].Team # name]

IsExampleRow(row) ==
    /\ row.FGAttempts = 60 /\ row.OffensiveRebounds = 10
    /\ row.Turnovers = 12 /\ row.FTAtt = 15

\* C1: for every team row, negative values included, the possession estimate
\* made at construction is FGA - ORB + TO + 0.44 * FTA, unclamped, for our
\* team and for the opponent; FGA = 60, ORB = 10, TO = 12, FTA = 15 gives 68.6
C1_PossessionFormula ==
    analyzer.phase = "ready" =>
      LET our == FirstRow(team_df, OurTeamName)
          opp == FirstRow(team_df, OpponentTeamName)
      IN  /\ analyzer.our_possessions - 44 * our.FTAtt
               = 100 * (our.FGAttempts + our.Turnovers - our.OffensiveRebounds)
          /\ analyzer.opponent_possessions - 44 * opp.FTAtt
               = 100 * (opp.FGAttempts + opp.Turnovers - opp.OffensiveRebounds)
          /\ IsExampleRow(our) => analyzer.our_possessions = 6860

\* the example row for our team, and a negative estimate for the opponent
C1_Witness ==
    /\ analyzer.phase = "ready"
    /\ IsExampleRow(FirstRow(team_df, OurTeamName))
    /\ analyzer.our_possessions = 6860
    /\ analyzer.opponent_possessions < 0

\* how far an input is raised when monotonicity is checked
MaxDelta == 3

\* C2: with the other three inputs fixed, the estimate does not decrease when
\* turnovers or free-throw attempts grow, and does not increase when offensive
\* rebounds grow
C2_PossessionMonotone ==
    analyzer.phase = "ready" =>
      \A d \in 0..MaxDelta :
        /\ calculate_possessions(
             [analyzer.our_team_stats EXCEPT !.Turnovers = @ + d])
             >= analyzer.our_possessions
        /\ calculate_possessions(
             [analyzer.our_team_stats EXCEPT !.FTAtt = @ + d])
             >= analyzer.our_possessions
        /\ calculate_possessions(
             [analyzer.our_team_stats EXCEPT !.OffensiveRebounds = @ + d])
             <= analyzer.our_possessions
        /\ calculate_possessions(
             [analyzer.opponent_stats EXCEPT !.Turnovers = @ + d])
             >= analyzer.opponent_possessions
        /\ calculate_possessions(
             [analyzer.opponent_stats EXCEPT !.FTAtt = @ + d])
             >= analyzer.opponent_possessions
        /\ calculate_possessions(
             [analyzer.opponent_stats EXCEPT !.OffensiveRebounds = @ + d])
             <= analyzer.opponent_possessions

\* an estimate that one more turnover raises and one more offensive rebound
\* lowers
C2_Witness ==
    /\ analyzer.phase = "ready"
    /\ calculate_possessions(
         [analyzer.our_team_stats EXCEPT !.Turnovers = @ + 1])
         > analyzer.our_possessions
    /\ calculate_possessions(
         [analyzer.our_team_stats EXCEPT !.OffensiveRebounds = @ + 1])
         < analyzer.our_possessions

\* C3: a team whose estimated possessions are 0 has points per possession 0
\* and turnover rate 0 (a number, not nan or inf, and no error), whatever its
\* points and turnovers
C3_ZeroPossessions ==
    /\ (efficiency.k # "none" /\ analyzer.our_possessions = 0)
          => efficiency.k = "efficiency" /\ efficiency.our_team.ppp = Num(0)
    /\ (efficiency.k # "none" /\ analyzer.opponent_possessions = 0)
          => efficiency.k = "efficiency" /\ efficiency.opponent.ppp = Num(0)
    /\ (turnovers.k # "none" /\ analyzer.our_possessions = 0)
          => turnovers.k = "turnovers" /\ turnovers.our_to_rate = Num(0)
    /\ (turnovers.k # "none" /\ analyzer.opponent_possessions = 0)
          => turnovers.k = "turnovers" /\ turnovers.opp_to_rate = Num(0)

\* both analyses done for a team with 0 possessions, points and turnovers
C3_Witness ==
    /\ efficiency.k = "efficiency" /\ turnovers.k = "turnovers"
    /\ analyzer.our_possessions = 0
    /\ analyzer.our_team_stats.Points > 0
    /\ analyzer.our_team_stats.Turnovers > 0
    /\ efficiency.our_team.ppp = Num(0)
    /\ turnovers.our_to_rate = Num(0)

----------------------------------------------------------------------------
(* Minutes normalization (SpecMinutes) *)

\* longest generated clock string
MaxClockLen == 4

ClockAlphabet == {"0", "3", ":", "x", "-"}

RECURSIVE StringsUpTo(_, _)
StringsUpTo(alphabet, n) ==
    IF n = 0 THEN {<<>>}
    ELSE LET shorter == StringsUpTo(alphabet, n - 1)
         IN  shorter \cup {Append(str, c) : str \in shorter, c \in alphabet}

\* what the Basic:MP column can hold: nothing, a number, the sentinel, the
\* documented example, blanks, and every string over ClockAlphabet
MinuteCells ==
    {NaN, Num(24), Str(<<EmDash>>), Str(<<"2", "4", ":", "3", "0">>),
     Str(<<" ", "5", ":", "0", "7", " ">>), Str(<<"1", ":", "2", ":", "3">>),
     Str(<<"2", "4", ".", "5", ":", "3", "0">>)}
    \cup {Str(str) : str \in StringsUpTo(ClockAlphabet, MaxClockLen)}

\* SpecMinutes: two home players with turnovers and rebounds; the first one's
\* minutes cell is any of MinuteCells, the second one's is "24:30"
InitMinutes ==
    /\ team_df = <<DefaultTeam(OurTeamName), DefaultTeam(OpponentTeamName)>>
    /\ \E mp \in MinuteCells, n \in {Num(2), Num(3)} :
         player_df = <<[DefaultPlayer(1, "home") EXCEPT
                           !.BasicMP = mp, !.BasicTO = n, !.BasicTRB = n],
                       [DefaultPlayer(2, "home") EXCEPT
                           !.BasicTO = Num(2), !.BasicTRB = Num(2)]>>
    /\ run = NewRun(TRUE, TRUE, TRUE)
    /\ GameIdle
    /\ ZoneIdle

SpecMinutes == InitMinutes /\ [][NextGame]_vars

IsDigitString(str) == Len(str) >= 1 /\ \A i \in 1..Len(str) : str[i] \in Digits

RECURSIVE DecimalValue(_)
DecimalValue(str) ==
    IF str = <<>> THEN 0
    ELSE DigitVal(str[Len(str)])
         + 10 * DecimalValue(SubSeq(str, 1, Len(str) - 1))

Colons(str) == {i \in 1..Len(str) : str[i] = ":"}

\* a part that is no integer: it holds no digit, or a character that is
\* neither a digit, a sign nor a blank
NonInteger(part) ==
    \/ \A i \in 1..Len(part) : part[i] \notin Digits
    \/ \E i \in 1..Len(part) : part[i] \notin Digits \cup {"-", "+", " "}

\* 'M:S': digits, one colon, digits
IsClock(cell) ==
    /\ cell.k = "str"
    /\ Cardinality(Colons(cell.s)) = 1
    /\ LET c == CHOOSE i \in Colons(cell.s) : TRUE
       IN  /\ IsDigitString(SubSeq(cell.s, 1, c - 1))
           /\ IsDigitString(SubSeq(cell.s, c + 1, Len(cell.s)))

ClockSixtieths(cell) ==
    LET c == CHOOSE i \in Colons(cell.s) : TRUE
    IN  60 * DecimalValue(SubSeq(cell.s, 1, c - 1))
        + DecimalValue(SubSeq(cell.s, c + 1, Len(cell.s)))

\* missing, the sentinel, empty, no colon, several colons, a non-integer part
IsUnparseable(cell) ==
    \/ cell.k = "nan"
    \/ cell = Str(<<EmDash>>)
    \/ /\ cell.k = "str"
       /\ \/ Cardinality(Colons(cell.s)) # 1
          \/ LET c == CHOOSE i \in Colons(cell.s) : TRUE
             IN  \/ NonInteger(SubSeq(cell.s, 1, c - 1))
                 \/ NonInteger(SubSeq(cell.s, c + 1, Len(cell.s)))

\* the entries of a ranking for the player of that name
EntriesOf(list, name) == {i \in 1..Len(list) : list[i].player = name}

MinutesAsClaimed(cell, minutes) ==
    /\ IsClock(cell) => minutes = ClockSixtieths(cell)
    /\ IsUnparseable(cell) => minutes = 0
    /\ cell = Str(<<"2", "4", ":", "3", "0">>) => 2 * minutes = 49 * 60

\* C7: 'M:S' normalizes to M + S/60 minutes ("24:30" to 24.5), every missing
\* or unparseable value to 0.0 without an error, and with 0 minutes the
\* player's per-36 turnover and rebound rates are 0
C7_MinutesNormalization ==
    /\ turnovers.k # "none" =>
         /\ turnovers.k = "turnovers"
         /\ \A p \in 1..Len(player_df) :
              \A i \in EntriesOf(turnovers.top_turnover_players,
                                 player_df[p].Athlete) :
                LET e == turnovers.top_turnover_players[i]
                IN  /\ MinutesAsClaimed(player_df[p].BasicMP, e.minutes)
                    /\ e.minutes = 0 => e.to_per_36 = Num(0)
    /\ rebounding.k # "none" =>
         /\ rebounding.k = "rebounding"
         /\ \A p \in 1..Len(player_df) :
              \A i \in EntriesOf(rebounding.top_rebounders,
                                 player_df[p].Athlete) :
                LET e == rebounding.top_rebounders[i]
                IN  /\ MinutesAsClaimed(player_df[p].BasicMP, e.minutes)
                    /\ e.minutes = 0 => e.reb_per_36 = Num(0)

\* a player whose seconds are no integer next to the "24:30" player: 0 minutes
\* and rates 0 for the first, 24.5 minutes and 2 / 24.5 * 36 = 2.94 for the other
C7_Witness ==
    /\ turnovers.k = "turnovers" /\ rebounding.k = "rebounding"
    /\ player_df[1].BasicMP = Str(<<"3", ":", "x">>)
    /\ \E i, j \in 1..Len(turnovers.top_turnover_players) :
         /\ turnovers.top_turnover_players[i].player = player_df[1].Athlete
         /\ turnovers.top_turnover_players[i].minutes = 0
         /\ turnovers.top_turnover_players[i].to_per_36 = Num(0)
         /\ turnovers.top_turnover_players[j].player = player_df[2].Athlete
         /\ turnovers.top_turnover_players[j].minutes = 1470
         /\ turnovers.top_turnover_players[j].to_per_36 = Num(294)
    /\ \E i \in 1..Len(rebounding.top_rebounders) :
         /\ rebounding.top_rebounders[i].player = player_df[1].Athlete
         /\ rebounding.top_rebounders[i].reb_per_36 = Num(0)

----------------------------------------------------------------------------
(* Player rankings (SpecRanking) *)

\* most rows of a generated player table
MaxPlayers == 4

\* a count column of a player row: missing, zero, or a count with ties
KeyCells == {NaN, Num(0), Num(1), Num(2)}

\* a table of n players; player i has count keys[i] in Basic:TO, Basic:TRB and
\* Basic:FGA (each analysis reads its own column only), and the player at
\* position away, if any, belongs to the other team
PlayerTable(keys, away) ==
    [i \in 1..Len(keys) |->
       [DefaultPlayer(i, IF i = away THEN "away" ELSE "home") EXCEPT
          !.BasicTO = keys[i], !.BasicTRB = keys[i], !.BasicFGA = keys[i]]]

InitRanking ==
    /\ team_df = <<DefaultTeam(OurTeamName), DefaultTeam(OpponentTeamName)>>
    /\ \E n \in 0..MaxPlayers :
         \E keys \in [1..n -> KeyCells], away \in 0..n :
           player_df = PlayerTable(keys, away)
    /\ run = NewRun(TRUE, TRUE, TRUE)
    /\ GameIdle
    /\ ZoneIdle

SpecRanking == InitRanking /\ [][NextGame]_vars

\* the row of the player table a ranking entry was made from
InputPosition(e) ==
    CHOOSE p \in 1..Len(player_df) : player_df[p].Athlete = e.player

SortedStable(list, key) ==
    \A i, j \in 1..Len(list) :
      i < j =>
        /\ list[i][key] >= list[j][key]
        /\ list[i][key] = list[j][key]
             => InputPosition(list[i]) < InputPosition(list[j])

\* C8: the turnover, rebound and shot-attempt rankings are in descending order
\* of their key, and two players with equal key keep the order they have in
\* the input player table
C8_RankingsStable ==
    /\ turnovers.k = "turnovers"
         => SortedStable(turnovers.top_turnover_players, "turnovers")
    /\ rebounding.k = "rebounding"
         => SortedStable(rebounding.top_rebounders, "total_reb")
    /\ shot_selection.k = "shot_selection"
         => SortedStable(shot_selection.top_shooters, "fga")

\* a later player with the larger count is moved in front of two tied players,
\* who keep their input order, in all three rankings
C8_Witness ==
    /\ shot_selection.k = "shot_selection"
    /\ Len(turnovers.top_turnover_players) = 3
    /\ Len(rebounding.top_rebounders) = 3
    /\ Len(shot_selection.top_shooters) = 3
    /\ \E a, b, c \in 1..Len(player_df) :
         /\ a < b /\ b < c
         /\ LET names == <<player_df[c].Athlete, player_df[a].Athlete,
                           player_df[b].Athlete>>
            IN  /\ [i \in 1..3 |-> turnovers.top_turnover_players[i].player]
                     = names
                /\ [i \in 1..3 |-> rebounding.top_rebounders[i].player] = names
                /\ [i \in 1..3 |-> shot_selection.top_shooters[i].player]
                     = names
    /\ turnovers.top_turnover_players[1].turnovers = 2
    /\ turnovers.top_turnover_players[2].turnovers = 1
    /\ turnovers.top_turnover_players[3].turnovers = 1


----------------------------------------------------------------------------
(* process_shots.py: the zone grid *)

\* the defaults of calculate_zone_stats, which main.main does not override
CourtWidth == 94
CourtLength == 50

\* int(): truncation towards zero of n / d, for d > 0
Trunc(n, d) == IF n >= 0 THEN n \div d ELSE -((-n) \div d)

\* max(0, min(1, v / size)), as the numerator over size.  min and max return
\* their first argument unless the other compares smaller (greater), and no
\* comparison with nan is true: min(1, nan) is 1
Normalize(v, size) ==
    IF v.k = "nan" THEN size
    ELSE IF v.v < size THEN (IF v.v > 0 THEN v.v ELSE 0)
    ELSE size

\* the index without the final min(index, n - 1)
ZoneIndexUnclamped(v, size, n) == Trunc(Normalize(v, size) * n, size)

\* lines 21-31: int(norm * n), then min(index, n - 1)
ZoneIndex(v, size, n) ==
    LET index == Trunc(Normalize(v, size) * n, size)
    IN  IF index < n - 1 THEN index ELSE n - 1

\* a pair whose row follows x and whose column follows y
assign_zone_transposed(x, y, court_width, court_length, grid_rows, grid_cols) ==
    <<ZoneIndex(x, court_width, grid_rows),
      ZoneIndex(y, court_length, grid_cols)>>

\* the pair (row, col): rows follow y, columns follow x
assign_zone(x, y, court_width, court_length, grid_rows, grid_cols) ==
    <<ZoneIndex(y, court_length, grid_rows),
      ZoneIndex(x, court_width, grid_cols)>>

\* str.contains(pat): pat occurs anywhere in s, case-sensitively
Contains(s, pat) ==
    \E i \in 1..(Len(s) - Len(pat) + 1) : SubSeq(s, i, i + Len(pat) - 1) = pat

ThreePT == <<"3", "P", "T">>

\* a test on the start of the shot type only
is_three_prefix(shot) ==
    /\ shot.ShotType.k = "str"
    /\ Len(shot.ShotType.s) >= Len(ThreePT)
    /\ SubSeq(shot.ShotType.s, 1, Len(ThreePT)) = ThreePT

\* df['ShotType'].str.contains('3PT', na=False): a missing type is False
is_three(shot) ==
    /\ shot.ShotType.k = "str"
    /\ Contains(shot.ShotType.s, ThreePT)

\* lines 59-68: the Points column of the working copy
shot_points(shot) ==
    IF shot.Result # "Made" THEN 0
    ELSE IF is_three(shot) THEN 3
    ELSE 2

\* the columns Zone and Points added to the copy of the table
working_copy(df, grid_rows, grid_cols) ==
    [i \in 1..Len(df) |->
        [Zone |-> assign_zone(df[i].X, df[i].Y, CourtWidth, CourtLength,
                              grid_rows, grid_cols),
         Result |-> df[i].Result,
         Points |-> shot_points(df[i])]]

\* a selection on the row of the zone only
zone_shots_of_row(work, row_idx, col_idx) ==
    {i \in 1..Len(work) : work[i].Zone[1] = row_idx}

\* df[df['Zone'] == (row_idx, col_idx)], as the positions of the rows kept
zone_shots(work, row_idx, col_idx) ==
    {i \in 1..Len(work) : work[i].Zone = <<row_idx, col_idx>>}

RECURSIVE SumPoints(_, _)
SumPoints(work, shots) ==
    IF shots = {} THEN 0
    ELSE LET i == CHOOSE j \in shots : TRUE
         IN  work[i].Points + SumPoints(work, shots \ {i})

\* a record that divides by the number of shots of the zone whether or not
\* there is one
zone_record_unguarded(work, row_idx, col_idx) ==
    LET shots == zone_shots(work, row_idx, col_idx)
        total_shots == Cardinality(shots)
        made_shots == Cardinality({i \in shots : work[i].Result = "Made"})
        total_points == SumPoints(work, shots)
    IN  [Row |-> row_idx, Col |-> col_idx, Zone |-> <<row_idx, col_idx>>,
         TotalShots |-> total_shots, MadeShots |-> made_shots,
         MissedShots |-> total_shots - made_shots,
         TotalPoints |-> total_points,
         PointsPerShot |-> FDiv(total_points, total_shots, 100),
         PointsPerPossession |-> FDiv(total_points, total_shots, 100),
         FieldGoalPercentage |-> FDiv(made_shots * 100, total_shots, 10)]

\* a record whose PointsPerPossession counts only the made shots of the zone
\* as possessions
zone_record_per_made(work, row_idx, col_idx) ==
    LET shots == zone_shots(work, row_idx, col_idx)
        total_shots == Cardinality(shots)
        made_shots == Cardinality({i \in shots : work[i].Result = "Made"})
        total_points == SumPoints(work, shots)
    IN  [Row |-> row_idx, Col |-> col_idx, Zone |-> <<row_idx, col_idx>>,
         TotalShots |-> total_shots, MadeShots |-> made_shots,
         MissedShots |-> total_shots - made_shots,
         TotalPoints |-> total_points,
         PointsPerShot |->
           IF total_shots > 0 THEN FDiv(total_points, total_shots, 100)
           ELSE Num(0),
         PointsPerPossession |->
           IF made_shots > 0 THEN FDiv(total_points, made_shots, 100)
           ELSE Num(0),
         FieldGoalPercentage |->
           IF total_shots > 0 THEN FDiv(made_shots * 100, total_shots, 10)
           ELSE Num(0)]

\* lines 75-113: the record appended for one zone; PointsPerShot and
\* PointsPerPossession in hundredths, FieldGoalPercentage in tenths
zone_record(work, row_idx, col_idx) ==
    LET shots == zone_shots(work, row_idx, col_idx)
        total_shots == Cardinality(shots)
        made_shots == Cardinality({i \in shots : work[i].Result = "Made"})
        total_points == SumPoints(work, shots)
    IN  IF total_shots > 0
        THEN [Row |-> row_idx, Col |-> col_idx, Zone |-> <<row_idx, col_idx>>,
              TotalShots |-> total_shots, MadeShots |-> made_shots,
              MissedShots |-> total_shots - made_shots,
              TotalPoints |-> total_points,
              PointsPerShot |-> FDiv(total_points, total_shots, 100),
              PointsPerPossession |-> FDiv(total_points, total_shots, 100),
              FieldGoalPercentage |-> FDiv(made_shots * 100, total_shots, 10)]
        ELSE [Row |-> row_idx, Col |-> col_idx, Zone |-> <<row_idx, col_idx>>,
              TotalShots |-> 0, MadeShots |-> 0, MissedShots |-> 0,
              TotalPoints |-> 0, PointsPerShot |-> Num(0),
              PointsPerPossession |-> Num(0), FieldGoalPercentage |-> Num(0)]

\* lines 72-113: the two loops, rows outside and columns inside
zone_table(work, grid_rows, grid_cols) ==
    [n \in 1..(grid_rows * grid_cols) |->
        zone_record(work, (n - 1) \div grid_cols, (n - 1) % grid_cols)]

\* A ShotType column with no string in it is read as a float column, and the
\* .str accessor of line 62 raises AttributeError.
shot_type_raises(df) ==
    /\ Len(df) > 0
    /\ \A i \in 1..Len(df) : df[i].ShotType.k = "nan"

ZoneError == [k |-> "error"]

\* calculate_zone_stats: every result the call can have.  On a table with no
\* row, df.apply yields no tuple column, and whether the comparison of line 74
\* raises depends on the installed libraries: either the call fails or every
\* zone is empty.
zone_stats_outcomes(df, grid_rows, grid_cols) ==
    LET work == working_copy(df, grid_rows, grid_cols)
        stats == [k |-> "stats", work |-> work,
                  table |-> zone_table(work, grid_rows, grid_cols)]
    IN  IF shot_type_raises(df) THEN {ZoneError}
        ELSE IF Len(df) = 0 THEN {ZoneError, stats}
        ELSE {stats}

----------------------------------------------------------------------------
(* main.main: one action per step of the shot zone run *)

RequiredColumns == {"X", "Y", "ShotType", "Result"}

ShotCharts == <<"shot_chart_comparison.png", "shot_chart_combined.png",
                "shot_chart_pps.png", "shot_chart_ppp.png">>

ShotOutputs == <<"zone_statistics.csv">> \o ShotCharts

\* return after a message, or the traceback of an exception nobody catches
Stop(r, msg) == [r EXCEPT !.pc = "done", !.exit = msg]

\* a load that goes on whether or not the file is there
LoadShotsUnchecked ==
    /\ shot_run.pc = "load"
    /\ shot_run' = [shot_run EXCEPT !.pc = "validate"]
    /\ UNCHANGED <<gameVars, shots_df, grid, zone_stats, files>>

\* lines 12-18: pd.read_csv('shots_data.csv'); FileNotFoundError is reported
LoadShots ==
    /\ shot_run.pc = "load"
    /\ shot_run' = IF shot_run.exists
                   THEN [shot_run EXCEPT !.pc = "validate"]
                   ELSE Stop(shot_run, "file not found")
    /\ UNCHANGED <<gameVars, shots_df, grid, zone_stats, files>>

\* lines 21-25
ValidateColumns ==
    /\ shot_run.pc = "validate"
    /\ shot_run' = IF RequiredColumns \subseteq shot_run.columns
                   THEN [shot_run EXCEPT !.pc = "zones"]
                   ELSE Stop(shot_run, "missing columns")
    /\ UNCHANGED <<gameVars, shots_df, grid, zone_stats, files>>

\* a call that adds the Zone and Points columns to the caller's table
CalculateZoneStatsInPlace ==
    /\ shot_run.pc = "zones"
    /\ \E result \in zone_stats_outcomes(shots_df, grid.rows, grid.cols) :
         /\ zone_stats' = result
         /\ shots_df' = IF result.k = "error" THEN shots_df ELSE result.work
         /\ shot_run' = IF result.k = "error" THEN Stop(shot_run, "crash")
                        ELSE [shot_run EXCEPT !.pc = "save_csv"]
    /\ UNCHANGED <<gameVars, grid, files>>

\* line 33: calculate_zone_stats(df, grid_rows, grid_cols)
CalculateZoneStats ==
    /\ shot_run.pc = "zones"
    /\ \E result \in zone_stats_outcomes(shots_df, grid.rows, grid.cols) :
         /\ zone_stats' = result
         /\ shot_run' = IF result.k = "error" THEN Stop(shot_run, "crash")
                        ELSE [shot_run EXCEPT !.pc = "save_csv"]
    /\ UNCHANGED <<gameVars, shots_df, grid, files>>

\* line 40: stats_df.to_csv('zone_statistics.csv')
SaveStatistics ==
    /\ shot_run.pc = "save_csv"
    /\ \E outcome \in WriteOutcomes :
         /\ files' = [files EXCEPT ![ShotOutputs[1]] = outcome]
         /\ shot_run' = IF outcome = "written"
                        THEN [shot_run EXCEPT !.pc = "charts"]
                        ELSE Stop(shot_run, "crash")
    /\ UNCHANGED <<gameVars, shots_df, grid, zone_stats>>

\* lines 47-70: each of the four charts is rendered and saved in turn
SaveChart ==
    /\ shot_run.pc = "charts"
    /\ \E outcome \in WriteOutcomes :
         /\ files' = [files EXCEPT ![ShotCharts[shot_run.chart]] = outcome]
         /\ shot_run' = IF outcome # "written" THEN Stop(shot_run, "crash")
                        ELSE IF shot_run.chart < Len(ShotCharts)
                        THEN [shot_run EXCEPT !.chart = @ + 1]
                        ELSE [shot_run EXCEPT !.pc = "show"]
    /\ UNCHANGED <<gameVars, shots_df, grid, zone_stats>>

\* lines 72-79: the closing notes and plt.show()
ShowPlots ==
    /\ shot_run.pc = "show"
    /\ shot_run' = Stop(shot_run, "ok")
    /\ UNCHANGED <<gameVars, shots_df, grid, zone_stats, files>>

NextShots ==
    \/ LoadShots
    \/ ValidateColumns
    \/ CalculateZoneStats
    \/ SaveStatistics
    \/ SaveChart
    \/ ShowPlots

----------------------------------------------------------------------------
(* Shot tables *)

NewShotRun(pc, exists, columns) ==
    [pc |-> pc, exists |-> exists, columns |-> columns, chart |-> 1,
     exit |-> "running"]

\* the game analysis is not run
GameNotRun ==
    /\ team_df = <<>>
    /\ player_df = <<>>
    /\ run = [pc |-> "idle"]
    /\ GameIdle

Shot(x, y, type, result) ==
    [X |-> x, Y |-> y, ShotType |-> type, Result |-> result]

RECURSIVE TablesUpTo(_, _)
\* every table of at most n rows drawn from a set of rows
TablesUpTo(rows, n) ==
    IF n = 0 THEN {<<>>}
    ELSE LET shorter == TablesUpTo(rows, n - 1)
         IN  shorter \cup {Append(t, r) : t \in shorter, r \in rows}

----------------------------------------------------------------------------
(* SpecAssign: calculate_zone_stats called on one shot, at coordinates on,
   off and at the edges of the court, under every grid up to MaxGrid *)

MaxGrid == 5

XValues == {-10, -1, 0, 1, 18, 19, 47, 93, 94, 95, 200}
YValues == {-5, 0, 10, 25, 49, 50, 51, 120}

XCells == {NaN} \cup {Num(v) : v \in XValues}
YCells == {NaN} \cup {Num(v) : v \in YValues}

InitAssign ==
    /\ \E x \in XCells, y \in YCells :
         shots_df = <<Shot(x, y, Str(<<"2", "P", "T">>), "Made")>>
    /\ \E rows \in 1..MaxGrid, cols \in 1..MaxGrid :
         grid = [rows |-> rows, cols |-> cols]
    /\ zone_stats = NoResult
    /\ shot_run = NewShotRun("zones", TRUE, RequiredColumns)
    /\ GameNotRun

SpecAssign == InitAssign /\ [][CalculateZoneStats]_vars

\* C4: every shot, whatever its coordinates (negative, beyond the court) and
\* whatever the grid of at least one row and one column, is assigned a zone
\* (row, col) with 0 <= row <= grid_rows - 1 and 0 <= col <= grid_cols - 1.
C4_ZoneAssignmentTotal ==
    zone_stats.k = "stats" =>
        /\ Len(zone_stats.work) = Len(shots_df)
        /\ \A i \in 1..Len(shots_df) :
             /\ zone_stats.work[i].Zone[1] \in 0..(grid.rows - 1)
             /\ zone_stats.work[i].Zone[2] \in 0..(grid.cols - 1)

\* a shot at x = 200 on the 94-wide court and y = -5, in the last column and
\* the first row of a 5 x 5 grid
C4_Witness ==
    /\ zone_stats.k = "stats"
    /\ grid = [rows |-> 5, cols |-> 5]
    /\ shots_df[1].X = Num(200)
    /\ shots_df[1].Y = Num(-5)
    /\ zone_stats.work[1].Zone = <<0, 4>>

----------------------------------------------------------------------------
(* SpecZones: calculate_zone_stats called on every table of at most MaxShots
   shots *)

MaxShots == 3

\* a type with '3PT' inside but not at its start, another type, a missing one
ShotTypes == {Str(<<"C", "3", "P", "T">>), Str(<<"2", "P", "T">>), NaN}

ShotRows ==
    {Shot(Num(at[1]), Num(at[2]), type, result) :
       at \in {<<10, 10>>, <<94, 50>>}, type \in ShotTypes,
       result \in {"Made", "Missed"}}

ZoneGrids == {[rows |-> 2, cols |-> 3], [rows |-> 5, cols |-> 5]}

InitZones ==
    /\ shots_df \in TablesUpTo(ShotRows, MaxShots)
    /\ grid \in ZoneGrids
    /\ zone_stats = NoResult
    /\ shot_run = NewShotRun("zones", TRUE, RequiredColumns)
    /\ GameNotRun

SpecZones == InitZones /\ [][CalculateZoneStats]_vars

\* the call has returned or raised
ZoneCallOver == shot_run.pc # "zones"

\* C5: for every shot table, the empty one included, the output of
\* calculate_zone_stats has exactly grid_rows * grid_cols rows and every
\* (row, col) of the grid is in exactly one of them.
C5_DenseGrid ==
    ZoneCallOver =>
        /\ zone_stats.k = "stats"
        /\ Len(zone_stats.table) = grid.rows * grid.cols
        /\ \A r \in 0..(grid.rows - 1), c \in 0..(grid.cols - 1) :
             Cardinality({n \in 1..Len(zone_stats.table) :
                            /\ zone_stats.table[n].Row = r
                            /\ zone_stats.table[n].Col = c}) = 1

\* the shots of a zone that were made, with (three = TRUE) or without '3PT'
\* somewhere in their type; a missing type is without
MadeIn(zone, three) ==
    {i \in 1..Len(shots_df) :
       /\ zone_stats.work[i].Zone = zone
       /\ shots_df[i].Result = "Made"
       /\ three = (/\ shots_df[i].ShotType.k = "str"
                   /\ \E a, b \in 0..Len(shots_df[i].ShotType.s) :
                        /\ b = a + 3
                        /\ shots_df[i].ShotType.s[a + 1] = "3"
                        /\ shots_df[i].ShotType.s[a + 2] = "P"
                        /\ shots_df[i].ShotType.s[b] = "T")}

\* C6: the TotalPoints of every zone is 3 for each made shot of the zone whose
\* type contains '3PT' plus 2 for each made shot whose type does not (a
\* missing type does not); shots that were not made add nothing.
C6_TotalPoints ==
    zone_stats.k = "stats" =>
        \A n \in 1..Len(zone_stats.table) :
            zone_stats.table[n].TotalPoints =
                3 * Cardinality(MadeIn(zone_stats.table[n].Zone, TRUE))
                + 2 * Cardinality(MadeIn(zone_stats.table[n].Zone, FALSE))

\* one zone holding a made '3PT' shot, a made shot of missing type and a
\* missed '3PT' shot: 3 + 2 + 0 points
C6_Witness ==
    /\ zone_stats.k = "stats"
    /\ Len(shots_df) = 3
    /\ shots_df[1] = Shot(Num(10), Num(10), Str(<<"C", "3", "P", "T">>), "Made")
    /\ shots_df[2] = Shot(Num(10), Num(10), NaN, "Made")
    /\ shots_df[3] = Shot(Num(10), Num(10), Str(<<"C", "3", "P", "T">>),
                          "Missed")
    /\ \E n \in 1..Len(zone_stats.table) :
         /\ zone_stats.table[n].Zone = <<0, 0>>
         /\ zone_stats.table[n].TotalShots = 3
         /\ zone_stats.table[n].TotalPoints = 5

----------------------------------------------------------------------------
(* SpecMains: both entry points run in the same working directory, in any
   interleaving, over input files that are there or not, shot files with any
   of the required columns, and tables on which a computation succeeds or
   raises *)

MainShotTables ==
    {<<>>,
     <<Shot(Num(10), Num(10), Str(<<"C", "3", "P", "T">>), "Made")>>,
     <<Shot(Num(10), Num(10), NaN, "Made")>>}

\* a full team table, and one without the opponent's row
MainTeamTables ==
    {<<DefaultTeam(OurTeamName), DefaultTeam(OpponentTeamName)>>,
     <<DefaultTeam(OurTeamName)>>}

\* a clean player table, and one whose turnover cell is text
MainPlayerTables ==
    {<<DefaultPlayer(1, "home"), DefaultPlayer(2, "away")>>,
     <<[DefaultPlayer(1, "home") EXCEPT !.BasicTO = Str(<<"x">>)]>>}

InitMains ==
    /\ shots_df \in MainShotTables
    /\ grid = [rows |-> 5, cols |-> 5]
    /\ zone_stats = NoResult
    /\ \E exists \in BOOLEAN, columns \in SUBSET RequiredColumns :
         shot_run = NewShotRun("load", exists, columns)
    /\ team_df \in MainTeamTables
    /\ player_df \in MainPlayerTables
    /\ \E argv \in BOOLEAN, team_exists \in BOOLEAN, player_exists \in BOOLEAN :
         run = NewRun(argv, team_exists, player_exists)
    /\ GameIdle

NextMains == NextGame \/ NextShots

SpecMains == InitMains /\ [][NextMains]_vars

Absent(outputs) == \A n \in 1..Len(outputs) : files[outputs[n]] = "absent"
Written(outputs) == \A n \in 1..Len(outputs) : files[outputs[n]] = "written"

ShotLoadFails ==
    ~shot_run.exists \/ ~(RequiredColumns \subseteq shot_run.columns)

GameLoadFails == ~run.team_exists \/ ~run.player_exists

\* C9: when shots_data.csv is missing or lacks one of X, Y, ShotType, Result,
\* the shot zone run reports it, calculate_zone_stats is never called and no
\* output file is written; when an input file of the game analysis is
\* missing, the run reports it, no metric is computed and no report file is
\* written.
C9_LoadFailureAborts ==
    /\ ShotLoadFails =>
         /\ zone_stats = NoResult
         /\ Absent(ShotOutputs)
         /\ shot_run.pc \in {"load", "validate", "done"}
         /\ shot_run.pc = "done" =>
              shot_run.exit \in {"file not found", "missing columns"}
    /\ GameLoadFails =>
         /\ analyzer.phase # "ready"
         /\ efficiency = NoResult
         /\ turnovers = NoResult
         /\ rebounding = NoResult
         /\ shot_selection = NoResult
         /\ generator = NoResult
         /\ Absent(GameOutputs)
         /\ run.pc \in {"paths", "construct", "done"}
         /\ run.pc = "done" =>
              run.exit \in {"team file not found", "player file not found",
                            "ERROR"}

\* both runs over: the shot file was there without its Result column, the
\* player file named on the command line was not
C9_Witness ==
    /\ shot_run.pc = "done"
    /\ shot_run.exists
    /\ shot_run.columns = RequiredColumns \ {"Result"}
    /\ shot_run.exit = "missing columns"
    /\ zone_stats = NoResult
    /\ run.pc = "done"
    /\ run.argv
    /\ run.team_exists
    /\ ~run.player_exists
    /\ run.exit = "ERROR"
    /\ analyzer.phase = "failed"

\* C10: a run that is over either completed with every one of its output
\* files written, or failed with none of them written.
C10_NoPartialFailure ==
    /\ shot_run.pc = "done" =>
         \/ shot_run.exit = "ok" /\ Written(ShotOutputs)
         \/ shot_run.exit # "ok" /\ Absent(ShotOutputs)
    /\ run.pc = "done" =>
         \/ run.exit = "ok" /\ Written(GameOutputs)
         \/ run.exit # "ok" /\ Absent(GameOutputs)

----------------------------------------------------------------------------
(* SpecTeamCells: the run on team rows whose percentage and ratio columns are
   present or missing, in every combination *)

PctFields ==
    {"EffectiveFieldGoalPct", "TrueShootingPct", "TwoFGPct", "ThreeFGPct",
     "OffensiveReboundingPct", "DefensiveReboundingPct", "TurnoverPct",
     "ASTTORatio"}

\* the opponent's columns that the analyses read
OpponentPctFields ==
    {"EffectiveFieldGoalPct", "TrueShootingPct", "OffensiveReboundingPct",
     "DefensiveReboundingPct"}

\* the row with the given columns missing
WithMissing(row, missing) ==
    [f \in DOMAIN row |-> IF f \in missing THEN NaN ELSE row[f]]

InitTeamCells ==
    /\ \E ours \in SUBSET PctFields, opps \in SUBSET OpponentPctFields :
         team_df = <<WithMissing(DefaultTeam(OurTeamName), ours),
                     WithMissing(DefaultTeam(OpponentTeamName), opps)>>
    /\ player_df = <<DefaultPlayer(1, "home"), DefaultPlayer(2, "away")>>
    /\ run = NewRun(TRUE, TRUE, TRUE)
    /\ GameIdle
    /\ ZoneIdle

SpecTeamCells == InitTeamCells /\ [][NextGame]_vars

IsNumber(c) == c.k = "num"

\* C11: whichever of the team percentage columns (Effective Field Goal%, True
\* Shooting%, 2FG%, 3FG%, Offensive/Defensive Rebounding%, Turnover%, AST-TO
\* Ratio) are missing, no value returned by calculate_efficiency_metrics,
\* analyze_turnovers, analyze_rebounding or optimize_shot_selection is NaN.
C11_NoNaNReturned ==
    /\ efficiency.k = "efficiency" =>
         /\ \A f \in {"ppp", "pps", "efg", "ts", "pct2", "pps2", "pct3",
                      "pps3"} : IsNumber(efficiency.our_team[f])
         /\ \A f \in {"ppp", "pps", "efg", "ts"} :
              IsNumber(efficiency.opponent[f])
    /\ turnovers.k = "turnovers" =>
         \A f \in {"our_to_rate", "opp_to_rate", "our_ast_to_ratio",
                   "our_turnover_pct", "potential_points_lost"} :
           IsNumber(turnovers[f])
    /\ rebounding.k = "rebounding" =>
         \A f \in {"orb_pct", "drb_pct"} :
           /\ IsNumber(rebounding.our_team[f])
           /\ IsNumber(rebounding.opponent[f])
    /\ shot_selection.k = "shot_selection" =>
         /\ \A f \in {"expected_value_2pt", "expected_value_3pt",
                      "current_2pt_rate", "current_3pt_rate"} :
              IsNumber(shot_selection[f])
         /\ IsNumber(shot_selection.optimal_mix.greater_value)
         /\ IsNumber(shot_selection.optimal_mix.lesser_value)

----------------------------------------------------------------------------
(* SpecPlayerCells: the run on a player row in which up to two of the cells
   the analyses read are missing, the sentinel, empty or other text *)

PlayerFields ==
    {"BasicTO", "BasicTRB", "BasicFGA", "BasicFGM", "BasicMP",
     "AdvancedASTTO", "AdvancedUSG", "AdvancedORBPct", "AdvancedDRBPct",
     "BasicFGPct", "ShootingEFG", "ShootingTS"}

DirtyCells == {NaN, Str(<<EmDash>>), Str(<<>>), Str(<<"x">>)}

\* the row with cell v1 in column f1 and cell v2 in column f2
WithCells(row, f1, v1, f2, v2) ==
    [f \in DOMAIN row |->
       IF f = f1 THEN v1 ELSE IF f = f2 THEN v2 ELSE row[f]]

InitPlayerCells ==
    /\ team_df = <<DefaultTeam(OurTeamName), DefaultTeam(OpponentTeamName)>>
    /\ \E f1 \in PlayerFields, f2 \in PlayerFields,
          v1 \in DirtyCells, v2 \in DirtyCells :
         player_df = <<WithCells(DefaultPlayer(1, "home"), f1, v1, f2, v2),
                       DefaultPlayer(2, "home")>>
    /\ run = NewRun(TRUE, TRUE, TRUE)
    /\ GameIdle
    /\ ZoneIdle

SpecPlayerCells == InitPlayerCells /\ [][NextGame]_vars

\* C12: whatever per-player cell (Basic:TO, Basic:TRB, Basic:FGA, Basic:FGM,
\* Basic:MP, Advanced:AST/TO, Advanced:USG%, Advanced:ORB%, Advanced:DRB%,
\* Basic:FG%, Shooting:eFG%, Shooting:TS%) is missing, non-numeric or the
\* sentinel, the three player analyses complete without error and every
\* numeric value of their player entries is a number.
C12_PlayerCellsDefaulted ==
    /\ turnovers.k # "error"
    /\ rebounding.k # "error"
    /\ shot_selection.k # "error"
    /\ turnovers.k = "turnovers" =>
         \A i \in 1..Len(turnovers.top_turnover_players) :
           \A f \in {"to_per_36", "ast_to_ratio", "usage"} :
             IsNumber(turnovers.top_turnover_players[i][f])
    /\ rebounding.k = "rebounding" =>
         \A i \in 1..Len(rebounding.top_rebounders) :
           \A f \in {"reb_per_36", "orb_pct", "drb_pct"} :
             IsNumber(rebounding.top_rebounders[i][f])
    /\ shot_selection.k = "shot_selection" =>
         \A i \in 1..Len(shot_selection.top_shooters) :
           \A f \in {"fga", "fgm", "fg_pct", "efg", "ts", "usage"} :
             shot_selection.top_shooters[i][f] \in Int

----------------------------------------------------------------------------
(* SpecRoster: the run on rosters of up to MaxRoster home players, more than
   the five a ranking holds, followed by one player of the other team.  The
   first two players have one turnover each, the others any count. *)

MaxRoster == 6

InitRoster ==
    /\ team_df = <<DefaultTeam(OurTeamName), DefaultTeam(OpponentTeamName)>>
    /\ \E n \in 2..MaxRoster :
         \E keys \in [1..n -> KeyCells] :
           /\ keys[1] = Num(1)
           /\ keys[2] = Num(1)
           /\ player_df = PlayerTable(keys, 0)
                          \o <<[DefaultPlayer(n + 1, "away") EXCEPT
                                  !.BasicTO = Num(2)]>>
    /\ run = NewRun(TRUE, TRUE, TRUE)
    /\ GameIdle
    /\ ZoneIdle

SpecRoster == InitRoster /\ [][NextGame]_vars

\* the rows of our players whose turnover count is present and positive
WithTurnovers ==
    {p \in 1..Len(player_df) :
       /\ player_df[p].Team = "home"
       /\ player_df[p].BasicTO.k = "num"
       /\ player_df[p].BasicTO.v > 0}

\* the rows of the players listed in the turnover ranking
Listed ==
    {p \in 1..Len(player_df) :
       \E i \in 1..Len(turnovers.top_turnover_players) :
         turnovers.top_turnover_players[i].player = player_df[p].Athlete}

\* C13 as stated: a player is in the turnover ranking if and only if the
\* player's turnover count is present and greater than 0.
C13_ListedIffTurnovers ==
    turnovers.k = "turnovers" => Listed = WithTurnovers

\* C13: the turnover ranking holds only players of ours whose turnover count
\* is present and greater than 0, each once; it holds all of them when they
\* are at most five, and otherwise five of them, none with fewer turnovers
\* than a player left out.
C13_TopFiveWithTurnovers ==
    turnovers.k = "turnovers" =>
        LET top == turnovers.top_turnover_players
        IN  /\ Listed \subseteq WithTurnovers
            /\ Cardinality(Listed) = Len(top)
            /\ Len(top) = IF Cardinality(WithTurnovers) <= 5
                          THEN Cardinality(WithTurnovers) ELSE 5
            /\ \A i \in 1..Len(top) :
                 \E p \in Listed :
                   /\ player_df[p].Athlete = top[i].player
                   /\ player_df[p].BasicTO.v = top[i].turnovers
            /\ \A p \in WithTurnovers \ Listed :
                 \A i \in 1..Len(top) :
                   top[i].turnovers >= player_df[p].BasicTO.v

\* six players with turnovers, the last of them with the most: the ranking
\* holds five, led by the last, and leaves out the fifth
C13_Witness ==
    /\ turnovers.k = "turnovers"
    /\ Cardinality(WithTurnovers) = 6
    /\ Len(turnovers.top_turnover_players) = 5
    /\ turnovers.top_turnover_players[1].player = player_df[6].Athlete
    /\ turnovers.top_turnover_players[1].turnovers = 2
    /\ 5 \notin Listed
    /\ Listed = {1, 2, 3, 4, 6}

----------------------------------------------------------------------------
(* SpecTurnoverRate: the run on team rows whose turnover rate is 0, below,
   at, between and above the thresholds of 15 and 20 percent, with a
   non-positive possession estimate among them *)

\* with 10 offensive rebounds and no free throw: 12 turnovers and 58 attempts
\* are 20 percent of 60 possessions, 9 and 61 are 15 percent of 60, 12 and 78
\* are 15 percent of 80
RateTurnovers == {0, 9, 12, 13}
RateAttempts == {-20, 58, 61, 78}
RateFreeThrows == {0, 25}

\* the supplied AST-TO Ratio (hundredths) and Points Per Possession
\* (thousandths) columns
RatioCells == {NaN, Num(99), Num(100)}
SuppliedPPP == {Num(1020), Num(950)}

InitTurnoverRate ==
    /\ \E to \in RateTurnovers, fga \in RateAttempts, fta \in RateFreeThrows,
          ratio \in RatioCells, ppp \in SuppliedPPP :
         team_df = <<[DefaultTeam(OurTeamName) EXCEPT
                        !.Turnovers = to, !.FGAttempts = fga, !.FTAtt = fta,
                        !.ASTTORatio = ratio, !.PointsPerPossession = ppp],
                     DefaultTeam(OpponentTeamName)>>
    /\ player_df = <<DefaultPlayer(1, "home"), DefaultPlayer(2, "away")>>
    /\ run = NewRun(TRUE, TRUE, TRUE)
    /\ GameIdle
    /\ ZoneIdle

SpecTurnoverRate == InitTurnoverRate /\ [][NextGame]_vars

HasFlag(recommendations, name) ==
    \E i \in 1..Len(recommendations) : recommendations[i].flag = name

\* our possession estimate in hundredths, from the team table
OurPossessions ==
    LET our == FirstRow(team_df, OurTeamName)
    IN  100 * (our.FGAttempts - our.OffensiveRebounds + our.Turnovers)
        + 44 * our.FTAtt

\* turnovers / possessions as a percentage, 0 when possessions are not
\* positive, is greater than k (k > 0)
OurRateOver(k) ==
    /\ OurPossessions > 0
    /\ FirstRow(team_df, OurTeamName).Turnovers * 100 * 100
         > k * OurPossessions

\* C14: the 'critical' flag is recommended exactly when the team turnover rate
\* is > 20, the 'elevated' flag exactly when it is > 15 and not > 20; never
\* both, and at exactly 15 or exactly 20 the lower tier applies.
C14_TurnoverTiers ==
    turnovers.k = "turnovers" =>
        /\ HasFlag(turnovers.recommendations, "critical") <=> OurRateOver(20)
        /\ HasFlag(turnovers.recommendations, "elevated")
             <=> (OurRateOver(15) /\ ~OurRateOver(20))
        /\ ~(/\ HasFlag(turnovers.recommendations, "critical")
             /\ HasFlag(turnovers.recommendations, "elevated"))

\* 12 turnovers in exactly 60 possessions, a rate of exactly 20: elevated
C14_Witness ==
    /\ turnovers.k = "turnovers"
    /\ FirstRow(team_df, OurTeamName).Turnovers = 12
    /\ OurPossessions = 6000
    /\ turnovers.our_to_rate = Num(2000)
    /\ HasFlag(turnovers.recommendations, "elevated")
    /\ ~HasFlag(turnovers.recommendations, "critical")

\* C16: the points potentially lost are our turnovers times the points per
\* possession that calculate_efficiency_metrics derives for our team (points
\* / estimated possessions, 0 when there is no possession).
C16_PointsLostFromDerivedPPP ==
    (turnovers.k = "turnovers" /\ efficiency.k = "efficiency") =>
        turnovers.potential_points_lost =
            Num(RoundHalfEven(FirstRow(team_df, OurTeamName).Turnovers
                                * efficiency.our_team.ppp.v, 10))

----------------------------------------------------------------------------
(* SpecTopPlayer: the run on tables of up to two home players whose turnovers
   per 36 minutes are 0, exactly 5, just above 5 and well above 5, under team
   rows that raise none, the elevated or the critical flag *)

\* turnovers and playing time: 3 in 21:35 is 5.0039 per 36 minutes, 3 in
\* 21:30 is 5.023, 5 in 36:00 is exactly 5, 6 in 36:00 is 6
TopPlayerKinds ==
    {<<Num(3), Str(<<"2", "1", ":", "3", "5">>)>>,
     <<Num(3), Str(<<"2", "1", ":", "3", "0">>)>>,
     <<Num(5), Str(<<"3", "6", ":", "0", "0">>)>>,
     <<Num(6), Str(<<"3", "6", ":", "0", "0">>)>>,
     <<Num(6), Str(<<EmDash>>)>>,
     <<Num(0), Str(<<"3", "6", ":", "0", "0">>)>>}

TopPlayerTable(kinds) ==
    [i \in 1..Len(kinds) |->
       [DefaultPlayer(i, "home") EXCEPT
          !.BasicTO = kinds[i][1], !.BasicMP = kinds[i][2]]]

InitTopPlayer ==
    /\ \E to \in {0, 12, 13}, ratio \in {Num(99), Num(100)} :
         team_df = <<[DefaultTeam(OurTeamName) EXCEPT
                        !.Turnovers = to, !.FGAttempts = 58, !.FTAtt = 0,
                        !.ASTTORatio = ratio],
                     DefaultTeam(OpponentTeamName)>>
    /\ \E kinds \in TablesUpTo(TopPlayerKinds, 2) :
         player_df = TopPlayerTable(kinds)
    /\ run = NewRun(TRUE, TRUE, TRUE)
    /\ GameIdle
    /\ ZoneIdle

SpecTopPlayer == InitTopPlayer /\ [][NextGame]_vars

\* the top-ranked player: most turnovers, earliest in the input among ties
IsTopRanked(p) ==
    /\ p \in WithTurnovers
    /\ \A q \in WithTurnovers :
         \/ player_df[p].BasicTO.v > player_df[q].BasicTO.v
         \/ player_df[p].BasicTO.v = player_df[q].BasicTO.v /\ p <= q

\* TO / minutes * 36 > 5, the rate being 0 when minutes is 0
Per36Over5(p) ==
    LET minutes == parse_minutes(player_df[p].BasicMP)
    IN  minutes > 0 /\ player_df[p].BasicTO.v * 36 * 60 > 5 * minutes

PlayerFlags ==
    {i \in 1..Len(turnovers.recommendations) :
       turnovers.recommendations[i].flag = "player"}

\* C15: the player flag is recommended exactly when the turnover ranking is
\* not empty and the turnovers per 36 minutes of its top-ranked player are
\* > 5, whatever the other three flags; it then names that player and no
\* other.
C15_TopPlayerFlag ==
    turnovers.k = "turnovers" =>
        /\ PlayerFlags # {} <=> \E p \in WithTurnovers :
                                  IsTopRanked(p) /\ Per36Over5(p)
        /\ Cardinality(PlayerFlags) <= 1
        /\ \A i \in PlayerFlags :
             \E p \in WithTurnovers :
               /\ IsTopRanked(p)
               /\ turnovers.recommendations[i].player = player_df[p].Athlete

----------------------------------------------------------------------------
(* SpecRebounds: the run on team rows on either side of, and exactly at, each
   of the four rebounding thresholds *)

\* against the opponent's 30 rebounds and 10 offensive rebounds: margins of
\* -6, -5 and 0, and of -4, -3 and 0
OurReboundTotals == {24, 25, 30}
OurOffensiveRebounds == {6, 7, 10}

InitRebounds ==
    /\ \E pct \in {NaN, Num(2499), Num(2500)},
          opp_pct \in {NaN, Num(3500), Num(3501)},
          reb \in OurReboundTotals, orb \in OurOffensiveRebounds :
         team_df = <<[DefaultTeam(OurTeamName) EXCEPT
                        !.OffensiveReboundingPct = pct, !.Rebounds = reb,
                        !.OffensiveRebounds = orb],
                     [DefaultTeam(OpponentTeamName) EXCEPT
                        !.OffensiveReboundingPct = opp_pct]>>
    /\ player_df = <<DefaultPlayer(1, "home"), DefaultPlayer(2, "away")>>
    /\ run = NewRun(TRUE, TRUE, TRUE)
    /\ GameIdle
    /\ ZoneIdle

SpecRebounds == InitRebounds /\ [][NextGame]_vars

\* the four conditions on the team table, percentages in hundredths
ReboundConditions ==
    LET our == FirstRow(team_df, OurTeamName)
        opp == FirstRow(team_df, OpponentTeamName)
    IN  [orb_below_average |->
           /\ our.OffensiveReboundingPct.k = "num"
           /\ our.OffensiveReboundingPct.v < 2500,
         opponent_orb_strong |->
           /\ opp.OffensiveReboundingPct.k = "num"
           /\ opp.OffensiveReboundingPct.v > 3500,
         losing_rebounding_battle |-> our.Rebounds - opp.Rebounds < -5,
         giving_up_offensive_rebounds |->
           our.OffensiveRebounds - opp.OffensiveRebounds < -3]

ReboundFlags ==
    {"orb_below_average", "opponent_orb_strong", "losing_rebounding_battle",
     "giving_up_offensive_rebounds"}

\* C17: each of the four rebounding recommendations is present exactly when
\* its own condition holds (own offensive-rebound% < 25, opponent's > 35,
\* rebound margin < -5, offensive-rebound margin < -3), whatever the other
\* three; a value exactly at its threshold does not fire.
C17_ReboundFlagsIndependent ==
    rebounding.k = "rebounding" =>
        /\ \A f \in ReboundFlags :
             HasFlag(rebounding.recommendations, f) <=> ReboundConditions[f]
        /\ \A i \in 1..Len(rebounding.recommendations) :
             rebounding.recommendations[i].flag \in ReboundFlags

\* own percentage below 25 and offensive margin of -4 fire; the opponent's
\* percentage of exactly 35 and the margin of exactly -5 do not
C17_Witness ==
    /\ rebounding.k = "rebounding"
    /\ rebounding.our_team.orb_pct = Num(2499)
    /\ rebounding.opponent.orb_pct = Num(3500)
    /\ rebounding.rebound_margin = -5
    /\ rebounding.orb_margin = -4
    /\ [i \in 1..Len(rebounding.recommendations) |->
          rebounding.recommendations[i].flag]
         = <<"orb_below_average", "giving_up_offensive_rebounds">>

----------------------------------------------------------------------------
(* SpecShotMix: the run on team rows whose 2-point and 3-point percentages
   give a higher 3-point, a higher 2-point and equal expected values, and lie
   on either side of and at the thresholds of 40 and 30 percent, with a
   3-point share of the attempts of 0, exactly 50 and above 50 percent *)

\* hundredths of a percent; 60 and 40, 75 and 50, 45 and 30 have equal
\* expected values
TwoPointPcts == {NaN, Num(3999), Num(4000), Num(4500), Num(6000), Num(7500)}
ThreePointPcts == {NaN, Num(2999), Num(3000), Num(4000), Num(5000)}

InitShotMix ==
    /\ \E pct2 \in TwoPointPcts, pct3 \in ThreePointPcts,
          fga \in {0, 60}, att3 \in {30, 31} :
         team_df = <<[DefaultTeam(OurTeamName) EXCEPT
                        !.TwoFGPct = pct2, !.ThreeFGPct = pct3,
                        !.FGAttempts = fga, !.ThreeFGAtt = att3],
                     DefaultTeam(OpponentTeamName)>>
    /\ player_df = <<DefaultPlayer(1, "home"), DefaultPlayer(2, "away")>>
    /\ run = NewRun(TRUE, TRUE, TRUE)
    /\ GameIdle
    /\ ZoneIdle

SpecShotMix == InitShotMix /\ [][NextGame]_vars

\* the expected value (percentage x shot value) of the named shot type is
\* higher than the other's
HigherExpectedValue(type) ==
    LET our == FirstRow(team_df, OurTeamName)
    IN  /\ our.TwoFGPct.k = "num"
        /\ our.ThreeFGPct.k = "num"
        /\ IF type = "3PT"
           THEN our.ThreeFGPct.v * 3 > our.TwoFGPct.v * 2
           ELSE our.TwoFGPct.v * 2 > our.ThreeFGPct.v * 3

\* C18: 'Increase 3-point attempts' is recommended only when the 3-point
\* expected value is the higher one, 'Focus on high-percentage 2-point shots'
\* only when the 2-point expected value is the higher one, and the reason
\* given ('X expected value > Y expected value') is a true inequality for
\* every input, equal expected values included.
C18_ShiftTowardHigherValue ==
    shot_selection.k = "shot_selection" =>
        LET mix == shot_selection.optimal_mix
        IN  /\ mix.recommendation = "Increase 3-point attempts"
                 => HigherExpectedValue("3PT")
            /\ mix.recommendation = "Focus on high-percentage 2-point shots"
                 => HigherExpectedValue("2PT")
            /\ HigherExpectedValue(mix.greater)

\* the 3-point share of the attempts ('3FG Att' / 'FG Attempts', 0 without
\* attempts) is above 50 percent
HighVolumeThrees ==
    LET our == FirstRow(team_df, OurTeamName)
    IN  our.FGAttempts > 0 /\ 2 * our.ThreeFGAtt > our.FGAttempts

\* C19: 'reduce inefficient high-volume 3s' is recommended exactly when the
\* 3-point percentage is < 30 and the 3-point attempt rate is > 50 percent,
\* 'improve shot selection' exactly when the 2-point percentage is < 40; each
\* whatever the other.
C19_ShotFlags ==
    shot_selection.k = "shot_selection" =>
        LET our == FirstRow(team_df, OurTeamName)
        IN  /\ HasFlag(shot_selection.recommendations,
                       "inefficient_high_volume_3s")
                 <=> /\ our.ThreeFGPct.k = "num"
                     /\ our.ThreeFGPct.v < 3000
                     /\ HighVolumeThrees
            /\ HasFlag(shot_selection.recommendations,
                       "improve_shot_selection")
                 <=> (our.TwoFGPct.k = "num" /\ our.TwoFGPct.v < 4000)

\* 29.99 percent on 31 of 60 attempts with exactly 40 percent on 2-pointers:
\* the first recommendation alone
C19_Witness ==
    /\ shot_selection.k = "shot_selection"
    /\ FirstRow(team_df, OurTeamName).ThreeFGPct = Num(2999)
    /\ FirstRow(team_df, OurTeamName).TwoFGPct = Num(4000)
    /\ shot_selection.current_3pt_rate = Num(5167)
    /\ [i \in 1..Len(shot_selection.recommendations) |->
          shot_selection.recommendations[i].flag]
         = <<"inefficient_high_volume_3s">>

----------------------------------------------------------------------------
(* Points per possession of a zone (SpecZones) *)

\* C20: in every row of the zone statistics, PointsPerPossession equals
\* PointsPerShot, each shot being one possession, for every shot table and
\* grid.
C20_PossessionIsShot ==
    zone_stats.k = "stats" =>
        \A n \in 1..Len(zone_stats.table) :
            zone_stats.table[n].PointsPerPossession
                = zone_stats.table[n].PointsPerShot

\* a zone with one made 2-pointer in three shots, 0.67 points per shot and
\* per possession, beside an empty zone with 0
C20_Witness ==
    /\ zone_stats.k = "stats"
    /\ \E n, m \in 1..Len(zone_stats.table) :
         /\ zone_stats.table[n].TotalShots = 3
         /\ zone_stats.table[n].MadeShots = 1
         /\ zone_stats.table[n].TotalPoints = 2
         /\ zone_stats.table[n].PointsPerShot = Num(67)
         /\ zone_stats.table[n].PointsPerPossession = Num(67)
         /\ zone_stats.table[m].TotalShots = 0
         /\ zone_stats.table[m].PointsPerPossession = Num(0)

----------------------------------------------------------------------------
(* Zones without a shot (SpecZones) *)

\* the zones of the grid no shot of the table is assigned to
EmptyZones ==
    {z \in (0..(grid.rows - 1)) \X (0..(grid.cols - 1)) :
       \A i \in 1..Len(shots_df) : zone_stats.work[i].Zone # z}

\* C21: a zone to which no shot is assigned has a row of its own in the zone
\* statistics, with TotalShots, MadeShots, MissedShots and TotalPoints 0 and
\* PointsPerShot, PointsPerPossession and FieldGoalPercentage the number 0.
C21_EmptyZoneIsZero ==
    zone_stats.k = "stats" =>
        \A z \in EmptyZones :
            \E n \in 1..Len(zone_stats.table) :
                LET rec == zone_stats.table[n]
                IN  /\ rec.Row = z[1]
                    /\ rec.Col = z[2]
                    /\ rec.TotalShots = 0
                    /\ rec.MadeShots = 0
                    /\ rec.MissedShots = 0
                    /\ rec.TotalPoints = 0
                    /\ rec.PointsPerShot = Num(0)
                    /\ rec.PointsPerPossession = Num(0)
                    /\ rec.FieldGoalPercentage = Num(0)

\* three made shots in the two corner zones of a 5 x 5 grid: the other 23
\* zones are reported with zeros
C21_Witness ==
    /\ zone_stats.k = "stats"
    /\ grid = [rows |-> 5, cols |-> 5]
    /\ Len(shots_df) = 3
    /\ \A i \in 1..3 : shots_df[i].Result = "Made"
    /\ Cardinality(EmptyZones) = 23
    /\ Len(zone_stats.table) = 25
    /\ Cardinality({n \in 1..25 : zone_stats.table[n].TotalShots = 0}) = 23
    /\ zone_stats.table[13].PointsPerShot = Num(0)
    /\ zone_stats.table[13].FieldGoalPercentage = Num(0)

----------------------------------------------------------------------------
(* SpecSides: GameAnalyzer constructed, as a library class, with every pair
   of team names over team tables in either order and player tables whose
   Team column holds 'home', 'away' or a team name *)

\* names passed as our_team and opponent_team; the last is in no table
ConfigNames == {OurTeamName, OpponentTeamName, "Nobody"}

PlayerTeamCells == {"home", "away", OurTeamName, OpponentTeamName}

SidesPlayerTables ==
    {[i \in 1..Len(teams) |-> DefaultPlayer(i, teams[i])] :
       teams \in TablesUpTo(PlayerTeamCells, 3)}

SidesTeamTables ==
    LET our == DefaultTeam(OurTeamName)
        opp == [DefaultTeam(OpponentTeamName) EXCEPT !.Points = 65]
    IN  {<<our, opp>>, <<opp, our>>,
         <<our, opp, [our EXCEPT !.Points = 1]>>, <<opp>>}

InitSides ==
    /\ team_df \in SidesTeamTables
    /\ player_df \in SidesPlayerTables
    /\ run = [pc |-> "idle"]
    /\ GameIdle
    /\ ZoneIdle

\* analyze_game.py lines 8-31: GameAnalyzer(team_box_score_path,
\* player_stats_path, our_team, opponent_team)
NewGameAnalyzer ==
    /\ analyzer.phase = "new"
    /\ \E our_team \in ConfigNames, opponent_team \in ConfigNames :
         analyzer' = NewAnalyzer(team_df, player_df, our_team, opponent_team)
    /\ UNCHANGED <<team_df, player_df, efficiency, turnovers, rebounding,
                   shot_selection, generator, run, zoneVars, files>>

SpecSides == InitSides /\ [][NewGameAnalyzer]_vars

\* the players analysed as ours when the two names are exchanged
PlayersWhenExchanged ==
    NewAnalyzer(team_df, player_df, analyzer.opponent_team,
                analyzer.our_team).our_players

\* C22: our totals are the team row named by our_team, the opponent's the row
\* named by opponent_team, and the players analysed as ours are decided by
\* the configured names: they are the rows of the player table whose Team is
\* the configured our-team name, so that with the two names exchanged no
\* player row is analysed as ours in both configurations.
C22_NamesDecideSides ==
    analyzer.phase = "ready" =>
        /\ analyzer.our_team_stats = FirstRow(team_df, analyzer.our_team)
        /\ analyzer.opponent_stats = FirstRow(team_df, analyzer.opponent_team)
        /\ analyzer.our_players = FilterTeam(player_df, analyzer.our_team)
        /\ analyzer.our_team # analyzer.opponent_team =>
             \A i \in 1..Len(analyzer.our_players) :
               \A j \in 1..Len(PlayersWhenExchanged) :
                 analyzer.our_players[i] # PlayersWhenExchanged[j]

----------------------------------------------------------------------------
(* The zone of a coordinate (SpecAssign) *)

\* index = min(floor(clamp(v / size, 0, 1) * n), n - 1) for a coordinate v
\* that is a number: 0 for v <= 0, n - 1 for v >= size, and between the two
\* the index whose cell [index * size / n, (index + 1) * size / n) holds v
IsEdgeClampedIndex(index, v, size, n) ==
    /\ index \in 0..(n - 1)
    /\ v <= 0 => index = 0
    /\ v >= size => index = n - 1
    /\ (0 < v /\ v < size) =>
         /\ index * size <= v * n
         /\ v * n < (index + 1) * size

\* C23: for a shot whose coordinates are numbers, the column is
\* min(floor(clamp(x / court_width, 0, 1) * grid_cols), grid_cols - 1) and
\* depends on x only, the row is the same function of y, court_length and
\* grid_rows: x <= 0 gives column 0, x >= court_width (court_width itself
\* included) gives column grid_cols - 1, and likewise for y and the rows.
C23_NearestEdgeZone ==
    zone_stats.k = "stats" =>
        \A i \in 1..Len(shots_df) :
            /\ shots_df[i].X.k = "num" =>
                 IsEdgeClampedIndex(zone_stats.work[i].Zone[2],
                                    shots_df[i].X.v, CourtWidth, grid.cols)
            /\ shots_df[i].Y.k = "num" =>
                 IsEdgeClampedIndex(zone_stats.work[i].Zone[1],
                                    shots_df[i].Y.v, CourtLength, grid.rows)

\* a shot at exactly x = 94 and y = 0 on a grid of 3 rows and 5 columns: the
\* last column and the first row
C23_Witness ==
    /\ zone_stats.k = "stats"
    /\ grid = [rows |-> 3, cols |-> 5]
    /\ shots_df[1].X = Num(CourtWidth)
    /\ shots_df[1].Y = Num(0)
    /\ zone_stats.work[1].Zone = <<0, 4>>

----------------------------------------------------------------------------
(* SpecSplits: the run on team rows whose 2-point and 3-point makes and
   attempts, supplied percentage columns, total attempts, points and '3FG Att'
   column vary, rows without an attempt of a type among them *)

\* (made, attempts) of a shot type
TwoPointCounts == {<<0, 0>>, <<1, 3>>, <<5, 11>>, <<20, 40>>}
ThreePointCounts == {<<0, 0>>, <<1, 3>>, <<6, 20>>}

\* the 2FG% and 3FG% columns as a box score prints them (hundredths of a
\* percent): missing, 50.0, 30.0, and one third with one and two decimals
SuppliedTwoPct == {NaN, Num(5000), Num(3330), Num(3333)}
SuppliedThreePct == {NaN, Num(3000), Num(3333)}

\* a '3FG Att' cell that is not the '3FG Attempts' cell of the row
OtherThreeAtt == 18

InitSplits ==
    /\ \E two \in TwoPointCounts, three \in ThreePointCounts,
          pct2 \in SuppliedTwoPct, pct3 \in SuppliedThreePct,
          points \in {0, 70} :
         \E fga \in {0, two[2] + three[2], 60},
            att3 \in {three[2], OtherThreeAtt} :
           team_df = <<[DefaultTeam(OurTeamName) EXCEPT
                          !.TwoFGMade = two[1], !.TwoFGAttempts = two[2],
                          !.ThreeFGMade = three[1],
                          !.ThreeFGAttempts = three[2],
                          !.ThreeFGAtt = att3,
                          !.TwoFGPct = pct2, !.ThreeFGPct = pct3,
                          !.FGAttempts = fga, !.Points = points],
                       DefaultTeam(OpponentTeamName)>>
    /\ player_df = <<DefaultPlayer(1, "home"), DefaultPlayer(2, "away")>>
    /\ run = NewRun(TRUE, TRUE, TRUE)
    /\ GameIdle
    /\ ZoneIdle

SpecSplits == InitSplits /\ [][NextGame]_vars

\* the cell is n / d (d > 0) in units of 1 / scale, rounded to the nearest
\* unit, a tie going either way
IsRounded(cell, n, d, scale) ==
    /\ cell.k = "num"
    /\ 2 * Abs(cell.v * d - n * scale) <= d

\* the reported percentage and expected value of a shot type worth value
\* points
SplitAsClaimed(pct, pps, made, attempts, value) ==
    IF attempts = 0
    THEN pct = Num(0) /\ pps = Num(0)
    ELSE /\ IsRounded(pct, made * 100, attempts, 100)
         /\ IsRounded(pps, made * value, attempts, 1000)

\* C24: for our team, the percentage of a shot type is makes / attempts * 100
\* (0 without an attempt of the type) and its expected value is percentage /
\* 100 * shot value, the value being 2 for 2-point and 3 for 3-point shots;
\* points per shot is points / field-goal attempts (0 without an attempt).
C24_SplitEfficiency ==
    efficiency.k = "efficiency" =>
        LET our == FirstRow(team_df, OurTeamName)
            e == efficiency.our_team
        IN  /\ SplitAsClaimed(e.pct2, e.pps2, our.TwoFGMade,
                              our.TwoFGAttempts, 2)
            /\ SplitAsClaimed(e.pct3, e.pps3, our.ThreeFGMade,
                              our.ThreeFGAttempts, 3)
            /\ IF our.FGAttempts = 0 THEN e.pps = Num(0)
               ELSE IsRounded(e.pps, our.Points, our.FGAttempts, 1000)

\* 5 of 11 2-pointers (45.45 percent, 0.909 expected), 6 of 20 3-pointers
\* (30 percent, 0.9 expected) and 70 points on 60 attempts (1.167 per shot)
C24_Witness ==
    /\ efficiency.k = "efficiency"
    /\ efficiency.our_team.fgm2 = 5
    /\ efficiency.our_team.fga2 = 11
    /\ efficiency.our_team.pct2 = Num(4545)
    /\ efficiency.our_team.pps2 = Num(909)
    /\ efficiency.our_team.pct3 = Num(3000)
    /\ efficiency.our_team.pps3 = Num(900)
    /\ efficiency.our_team.pps = Num(1167)

\* C25: the 2-point and 3-point expected values returned by
\* optimize_shot_selection are the 2pt_pps and 3pt_pps that
\* calculate_efficiency_metrics returns for the same analyzer, for every team
\* row.
C25_SameExpectedValues ==
    (efficiency.k = "efficiency" /\ shot_selection.k = "shot_selection") =>
        /\ shot_selection.expected_value_2pt = efficiency.our_team.pps2
        /\ shot_selection.expected_value_3pt = efficiency.our_team.pps3

\* C26: the attempt rates are the 2-point and the 3-point attempts that
\* calculate_efficiency_metrics uses for the split percentages, each over the
\* total field-goal attempts, as percentages; both are 0 without an attempt,
\* and they add up to 100 when the total is the sum of the two and positive.
C26_AttemptRates ==
    (efficiency.k = "efficiency" /\ shot_selection.k = "shot_selection") =>
        LET total == FirstRow(team_df, OurTeamName).FGAttempts
            fga2 == efficiency.our_team.fga2
            fga3 == efficiency.our_team.fga3
            rate2 == shot_selection.current_2pt_rate
            rate3 == shot_selection.current_3pt_rate
        IN  /\ IF total = 0 THEN rate2 = Num(0) /\ rate3 = Num(0)
               ELSE /\ IsRounded(rate2, fga2 * 100, total, 100)
                    /\ IsRounded(rate3, fga3 * 100, total, 100)
            /\ (total > 0 /\ total = fga2 + fga3)
                 => rate2.v + rate3.v = 100 * 100

----------------------------------------------------------------------------
(* The loaded tables under the computations (SpecMains) *)

\* the four results the report generator computes are the four the entry
\* point computed before it
SameResultsAgain ==
    /\ generator.efficiency = efficiency
    /\ generator.turnovers = turnovers
    /\ generator.rebounding = rebounding
    /\ generator.shot_selection = shot_selection

\* C27: no step of either program changes a loaded table: the shot table the
\* caller passes to calculate_zone_stats keeps its rows and columns, the team
\* and player tables and the constructed analyzer (team rows, players,
\* possession estimates) stay as they are under the four analyses, and the
\* analyses the report generator runs again return what they returned to the
\* entry point.
C27_TablesUnchanged ==
    [][/\ shots_df' = shots_df
       /\ team_df' = team_df
       /\ player_df' = player_df
       /\ analyzer.phase = "ready" => analyzer' = analyzer
       /\ generator'.k = "generator" =>
            /\ generator'.efficiency = efficiency'
            /\ generator'.turnovers = turnovers'
            /\ generator'.rebounding = rebounding'
            /\ generator'.shot_selection = shot_selection']_vars

\* both runs past their computations: the zone statistics hold the 3 points
\* of the made '3PT' shot while the shot table has its four columns only, and
\* the generator's results are those of the entry point
C27_Witness ==
    /\ zone_stats.k = "stats"
    /\ Len(shots_df) = 1
    /\ DOMAIN shots_df[1] = RequiredColumns
    /\ zone_stats.work[1].Points = 3
    /\ generator.k = "generator"
    /\ SameResultsAgain
    /\ turnovers.k = "turnovers"
    /\ analyzer = NewAnalyzer(team_df, player_df, OurTeamName,
                              OpponentTeamName)

----------------------------------------------------------------------------
(* Every shot in one zone (SpecZones) *)

RECURSIVE SumColumn(_, _)
\* the sum of a column over the rows of a table
SumColumn(table, column) ==
    IF table = <<>> THEN 0
    ELSE Head(table)[column] + SumColumn(Tail(table), column)

\* C28: the TotalShots of all zones add up to the number of shots of the
\* table and the MadeShots to the number of shots whose Result is 'Made'; in
\* every zone MadeShots + MissedShots = TotalShots and
\* 0 <= TotalPoints <= 3 * MadeShots.
C28_EveryShotOnce ==
    zone_stats.k = "stats" =>
        /\ SumColumn(zone_stats.table, "TotalShots") = Len(shots_df)
        /\ SumColumn(zone_stats.table, "MadeShots")
             = Cardinality({i \in 1..Len(shots_df) :
                              shots_df[i].Result = "Made"})
        /\ \A n \in 1..Len(zone_stats.table) :
             LET rec == zone_stats.table[n]
             IN  /\ rec.MadeShots + rec.MissedShots = rec.TotalShots
                 /\ 0 <= rec.TotalPoints
                 /\ rec.TotalPoints <= 3 * rec.MadeShots

\* three shots in two zones of the 2 x 3 grid, two of them made: 2 + 1 shots
\* and 1 + 1 made
C28_Witness ==
    /\ zone_stats.k = "stats"
    /\ grid = [rows |-> 2, cols |-> 3]
    /\ Len(shots_df) = 3
    /\ Cardinality({i \in 1..3 : shots_df[i].Result = "Made"}) = 2
    /\ zone_stats.table[1].TotalShots = 2
    /\ zone_stats.table[1].MadeShots = 1
    /\ zone_stats.table[6].TotalShots = 1
    /\ zone_stats.table[6].MadeShots = 1
    /\ SumColumn(zone_stats.table, "TotalShots") = 3

----------------------------------------------------------------------------
(* The cut of the rankings to five (SpecRoster) *)

\* the rows of our players whose count in the column is present and positive
Qualifying(column) ==
    {p \in 1..Len(player_df) :
       /\ player_df[p].Team = "home"
       /\ player_df[p][column].k = "num"
       /\ player_df[p][column].v > 0}

\* the place of a qualifying player in the full stable descending ranking:
\* behind the players with a larger count and the earlier ones with the same
RankOf(p, column) ==
    1 + Cardinality({q \in Qualifying(column) :
                       \/ player_df[q][column].v > player_df[p][column].v
                       \/ /\ player_df[q][column].v = player_df[p][column].v
                          /\ q < p})

\* the list is the first min(5, n) entries of that ranking
IsFirstFive(list, column, key) ==
    /\ Len(list) = IF Cardinality(Qualifying(column)) < 5
                   THEN Cardinality(Qualifying(column)) ELSE 5
    /\ \A i \in 1..Len(list) :
         \E p \in Qualifying(column) :
           /\ RankOf(p, column) = i
           /\ list[i].player = player_df[p].Athlete
           /\ list[i][key] = player_df[p][column].v

\* C29: each of the three player rankings holds at most 5 players and is the
\* first min(5, n) entries of the full stable descending ranking of the n
\* qualifying players: no listed player has a smaller count than a qualifying
\* player left out, and of the players tied at the cut the earlier ones in
\* the input are kept.
C29_FirstFiveOfRanking ==
    /\ turnovers.k = "turnovers" =>
         IsFirstFive(turnovers.top_turnover_players, "BasicTO", "turnovers")
    /\ rebounding.k = "rebounding" =>
         IsFirstFive(rebounding.top_rebounders, "BasicTRB", "total_reb")
    /\ shot_selection.k = "shot_selection" =>
         IsFirstFive(shot_selection.top_shooters, "BasicFGA", "fga")

\* six qualifying players with counts 1, 1, 2, 1, 1, 1: the third leads, the
\* sixth, tied with the fifth at the cut, is left out of all three rankings
C29_Witness ==
    /\ shot_selection.k = "shot_selection"
    /\ Cardinality(Qualifying("BasicFGA")) = 6
    /\ [i \in 1..6 |-> player_df[i].BasicFGA.v] = <<1, 1, 2, 1, 1, 1>>
    /\ LET names == [i \in 1..5 |-> player_df[<<3, 1, 2, 4, 5>>[i]].Athlete]
       IN  /\ [i \in 1..5 |-> turnovers.top_turnover_players[i].player] = names
           /\ [i \in 1..5 |-> rebounding.top_rebounders[i].player] = names
           /\ [i \in 1..5 |-> shot_selection.top_shooters[i].player] = names
    /\ Len(turnovers.top_turnover_players) = 5
    /\ Len(rebounding.top_rebounders) = 5
    /\ Len(shot_selection.top_shooters) = 5

====
